---------------------------- MODULE Spec2Model ----------------------------
(***************************************************************************)
(* Asteroid Threat Simulation Engine: the Defense Planner                  *)
(* (src/src/defenseSystems.js), the Orbital Propagator                     *)
(* (src/unnamed/part_000) and the Impact Physics Model                     *)
(* (src/src/supabaseClient.js, class ImpactPhysics).                       *)
(*                                                                         *)
(* JavaScript numbers are modelled as fixed-point integers, with the unit  *)
(* stated at each definition, extended by the three IEEE specials NaN,     *)
(* PosInf and NegInf.  The value undefined is Undefined, strings produced  *)
(* by formatting are records tagged type |-> "string".                     *)
(***************************************************************************)
EXTENDS Integers, Sequences, FiniteSets, TLC

VARIABLES
    \* ---- Defense Planner ----
    asteroidThreats,   \* the caller's threat array (sorted in place)
    budget,            \* generateDefensePlan's budget argument (millions USD)
    timeHorizon,       \* generateDefensePlan's timeHorizon argument (years)
    defensePlan,       \* the plan object under construction / returned
    index,             \* position of the forEach over prioritizedThreats
    selected,          \* what selectBestMethod returned for each threat so far
    planPc,            \* "idle" | "forEach" | "threw" | "done"
    inputOrder,        \* the threat array as the caller passed it, before the sort
    deflection,        \* last direct calculateDeflection call: input and outcome
    defenseCall,       \* last direct call of another DefenseSystems method
    \* ---- Orbital Propagator ----
    orbitalBodies,     \* the registry Map: id -> bodyData, Absent when no key
    sinks,             \* object3D.position of every renderable object
    earthCenter,       \* this.earthCenter
    earthCore,         \* this.earthCore: NoCore or the core mesh with its position
    lastCall,          \* the last public method called, its arguments and result
    hung,              \* TRUE once a normalisation loop can never terminate
    \* ---- Impact Physics ----
    impact,            \* last calculateImpactEffects call: input and outcome
    physicsCall        \* last direct call of another ImpactPhysics method

plannerVars == <<asteroidThreats, budget, timeHorizon, defensePlan, index, selected, planPc,
                 inputOrder>>
orbitVars   == <<orbitalBodies, sinks, earthCenter, earthCore, lastCall, hung>>
vars == <<asteroidThreats, budget, timeHorizon, defensePlan, index, selected, planPc,
          inputOrder, deflection, defenseCall, orbitalBodies, sinks, earthCenter, earthCore, lastCall, hung,
          impact, physicsCall>>

-----------------------------------------------------------------------------
(* JavaScript values *)

\* The IEEE specials, encoded as integers outside every range the model
\* computes (arithmetic on them goes through NMul, NAdd, NDiv, NGT, NGE only).
NaN    == -2147483646
PosInf == 2147483647
NegInf == -2147483647

Undefined == "undefined"
Null      == "null"

IsFinite(x) == x \notin {NaN, PosInf, NegInf}

Sign(x) == IF x > 0 THEN 1 ELSE IF x < 0 THEN -1 ELSE 0

InfOf(s) == IF s > 0 THEN PosInf ELSE NegInf

\* a * b (a finite product is in the unit "unit of a" x "unit of b")
NMul(a, b) ==
    IF a = NaN \/ b = NaN THEN NaN
    ELSE IF IsFinite(a) /\ IsFinite(b) THEN a * b
    ELSE IF Sign(a) * Sign(b) = 0 THEN NaN          \* Infinity * 0
    ELSE InfOf(Sign(a) * Sign(b))

\* a + b
NAdd(a, b) ==
    IF a = NaN \/ b = NaN THEN NaN
    ELSE IF IsFinite(a) /\ IsFinite(b) THEN a + b
    ELSE IF IsFinite(a) THEN b
    ELSE IF IsFinite(b) THEN a
    ELSE IF a = b THEN a ELSE NaN                   \* Infinity - Infinity

\* a / b, a finite quotient rounded toward minus infinity in the fixed-point unit
NDiv(a, b) ==
    IF a = NaN \/ b = NaN THEN NaN
    ELSE IF IsFinite(a) /\ IsFinite(b)
         THEN IF b = 0 THEN (IF a = 0 THEN NaN ELSE InfOf(Sign(a)))
              ELSE IF b > 0 THEN a \div b ELSE (0 - a) \div (0 - b)
    ELSE IF IsFinite(a) THEN 0
    ELSE IF IsFinite(b) THEN (IF b = 0 THEN a ELSE InfOf(Sign(a) * Sign(b)))
    ELSE NaN

\* a > b and a >= b: false whenever an operand is NaN
NGT(a, b) == a # NaN /\ b # NaN /\ a > b

NGE(a, b) == a # NaN /\ b # NaN /\ a >= b

\* x || d on numbers: 0 and NaN are falsy
OrElse(x, d) == IF x = 0 \/ x = NaN THEN d ELSE x

\* obj.f read as a number: a missing property is undefined, which every
\* arithmetic operator converts to NaN and which || treats as falsy, like NaN
NumField(obj, f) == IF f \in DOMAIN obj THEN obj[f] ELSE NaN

\* obj.f read as a string or object reference
Field(obj, f) == IF f \in DOMAIN obj THEN obj[f] ELSE Undefined

\* floor(a * m / b) and the remainder, for 0 <= a, 0 <= m, 0 < b, computed over
\* the binary digits of m so that no intermediate value leaves the integer range
RECURSIVE MulDivRec(_, _, _)
MulDivRec(a, m, b) ==
    IF m = 0 THEN <<0, 0>>
    ELSE LET h  == MulDivRec(a, m \div 2, b)
             c2 == IF h[2] >= b - h[2] THEN 1 ELSE 0
             q2 == 2 * h[1] + c2
             r2 == IF c2 = 1 THEN h[2] - (b - h[2]) ELSE h[2] + h[2]
             x  == a % b
             c3 == IF r2 >= b - x THEN 1 ELSE 0
         IN  IF m % 2 = 1
             THEN <<q2 + (a \div b) + c3, IF c3 = 1 THEN r2 - (b - x) ELSE r2 + x>>
             ELSE <<q2, r2>>

Abs(x) == IF x < 0 THEN 0 - x ELSE x

\* a * m / b on numbers, a finite quotient rounded toward zero
MulDiv(a, m, b) ==
    IF a = NaN \/ m = NaN \/ b = NaN THEN NaN
    ELSE IF IsFinite(a) /\ IsFinite(m) /\ IsFinite(b) /\ b # 0
         THEN Sign(a) * Sign(m) * Sign(b) * MulDivRec(Abs(a), Abs(m), Abs(b))[1]
    ELSE IF IsFinite(a) /\ IsFinite(m) /\ b = 0
         THEN IF a = 0 \/ m = 0 THEN NaN ELSE InfOf(Sign(a) * Sign(m))
    ELSE NDiv(NMul(a, m), b)

RECURSIVE SqrtSearch(_, _, _)
SqrtSearch(x, lo, hi) ==
    IF lo >= hi THEN lo
    ELSE LET mid == (lo + hi + 1) \div 2
         IN  IF mid * mid <= x THEN SqrtSearch(x, mid, hi)
             ELSE SqrtSearch(x, lo, mid - 1)

\* Math.sqrt rounded down to an integer, for 0 <= x
Sqrt(x) == IF x = NaN \/ x < 0 THEN NaN ELSE IF x = PosInf THEN PosInf
           ELSE SqrtSearch(x, 0, 46340)

-----------------------------------------------------------------------------
(* Defense Planner: the catalog *)

\* Object.keys(this.defenseMethods): insertion order
MethodKeys == <<"KINETIC_IMPACTOR", "GRAVITY_TRACTOR", "NUCLEAR_DEVICE",
                "LASER_ABLATION", "ION_BEAM">>

CatalogIds == {MethodKeys[i] : i \in 1..Len(MethodKeys)}

\* effectiveness in tenths, cost in millions USD, developmentTime in years,
\* successRate in hundredths, technologyReadiness on the 1-10 scale
defenseMethods ==
    [k \in CatalogIds |->
        CASE k = "KINETIC_IMPACTOR" ->
               [name |-> "Kinetic Impactor", effectiveness |-> 7, cost |-> 500,
                developmentTime |-> 5, successRate |-> 85, technologyReadiness |-> 9]
          [] k = "GRAVITY_TRACTOR" ->
               [name |-> "Gravity Tractor", effectiveness |-> 4, cost |-> 800,
                developmentTime |-> 8, successRate |-> 95, technologyReadiness |-> 6]
          [] k = "NUCLEAR_DEVICE" ->
               [name |-> "Nuclear Disruption", effectiveness |-> 9, cost |-> 2000,
                developmentTime |-> 3, successRate |-> 75, technologyReadiness |-> 7]
          [] k = "LASER_ABLATION" ->
               [name |-> "Laser Ablation", effectiveness |-> 6, cost |-> 1200,
                developmentTime |-> 10, successRate |-> 80, technologyReadiness |-> 4]
          [] k = "ION_BEAM" ->
               [name |-> "Ion Beam Shepherd", effectiveness |-> 5, cost |-> 1500,
                developmentTime |-> 12, successRate |-> 88, technologyReadiness |-> 3]]

\* names every plain object inherits from Object.prototype
ObjectPrototypeKeys == {"constructor", "toString", "valueOf", "hasOwnProperty"}

\* a lookup in a catalog that lost its ION_BEAM entry while Object.keys still
\* lists it
LookupMethod_NoIonBeam(defenseMethod) ==
    IF defenseMethod \in CatalogIds \ {"ION_BEAM"} THEN defenseMethods[defenseMethod]
    ELSE [undefined |-> TRUE]

\* this.defenseMethods[defenseMethod]: an own entry, an inherited member (a
\* function object, which has none of the catalog fields), or undefined
LookupMethod(defenseMethod) ==
    IF defenseMethod \in CatalogIds THEN defenseMethods[defenseMethod]
    ELSE IF defenseMethod \in ObjectPrototypeKeys
         THEN [inherited |-> defenseMethod,
               name |-> IF defenseMethod = "constructor" THEN "Object" ELSE defenseMethod]
         ELSE [undefined |-> TRUE]

\* !method: true for undefined, false for every object (functions included)
Not(method) == "undefined" \in DOMAIN method

-----------------------------------------------------------------------------
(* Defense Planner: calculateDeflection                                      *)
(* Units: diameter 0.1 km, velocity km/s, impactProbability 1e-4,            *)
(* timeToImpact years, mass kilotonnes (1e6 kg), delta-v micrometres per     *)
(* second, miss distance km.  Pi is 355/113.                                 *)

\* String.prototype.toLowerCase on the composition strings of the model
ToLowerCase(str) ==
    CASE str = "Iron"  -> "iron"
      [] str = "STONY" -> "stony"
      [] OTHER         -> str

\* the densities table, kg/m^3
densities == [stony |-> 3000, iron |-> 7800, carbonaceous |-> 2000,
              metal |-> 7800, rock |-> 3000, ice |-> 1000]

\* densities[composition?.toLowerCase()] || 3000 ; an inherited member of the
\* table is a function object: truthy, and NaN in the arithmetic that follows
getDensity(composition) ==
    IF composition = Undefined THEN 3000
    ELSE LET key == ToLowerCase(composition)
         IN  IF key \in DOMAIN densities THEN densities[key]
             ELSE IF key \in ObjectPrototypeKeys THEN NaN
             ELSE 3000

calculateAsteroidMass(asteroidData) ==
    LET density == getDensity(Field(asteroidData, "composition"))
        radius  == NMul(NumField(asteroidData, "diameter"), 50)          \* m
        cube    == NMul(NMul(radius, radius), radius)                    \* m^3
        volume  == NDiv(NMul(NDiv(cube, 1000), 4 * 355), 3 * 113)        \* 1e3 m^3
    IN  NDiv(NMul(NDiv(density, 100), volume), 10)                       \* kt

\* a required delta-v with no safety margin: one Earth radius
calculateRequiredDeltaV_OneRadius(asteroidData, timeToImpact) ==
    MulDiv(6371000, 1000000, NMul(timeToImpact, 31536000))

\* (earthRadius * safetyMargin) / (timeToImpact * 31536000)
calculateRequiredDeltaV(asteroidData, timeToImpact) ==
    LET earthRadius  == 6371000
        safetyMargin == 2
    IN  MulDiv(earthRadius * safetyMargin, 1000000, NMul(timeToImpact, 31536000))

calculateKineticDeflection(asteroidMass, timeToImpact) ==
    LET impactorMass     == 500
        impactorVelocity == 6000
        momentumTransfer == (impactorMass * impactorVelocity * 34) \div 10
    IN  NDiv(momentumTransfer, asteroidMass)

\* G = 6.67430e-11: acceleration (1e-15 m/s^2) * seconds, in micrometres/s
calculateGravityTractorDeflection(asteroidMass, timeToImpact) ==
    LET spacecraftMass   == 20000
        standoffDistance == 50
        acceleration     == (66743 * spacecraftMass) \div (standoffDistance * standoffDistance)
    IN  MulDiv(NMul(acceleration, timeToImpact), 31536000, 1000000000)

\* sqrt(2 * energy * efficiency / asteroidMass), the root taken in 0.1 m/s
calculateNuclearDeflection(asteroidMass, timeToImpact) ==
    NMul(Sqrt(MulDiv(200000000, 100, asteroidMass)), 100000)

\* thrust in micronewtons; thrust / mass * seconds
calculateLaserDeflection(asteroidMass, timeToImpact) ==
    LET laserPower      == 1000000
        specificImpulse == 1000
        thrust == MulDiv((2 * laserPower) \div 100, 1000000, (specificImpulse * 981) \div 100)
    IN  MulDiv(thrust, NMul(timeToImpact, 31536), NMul(asteroidMass, 1000))

calculateIonBeamDeflection(asteroidMass, timeToImpact) ==
    LET ionPower        == 500000
        specificImpulse == 3000
        thrust == MulDiv((2 * ionPower * 7) \div 1000, 1000000, (specificImpulse * 981) \div 100)
    IN  MulDiv(thrust, NMul(timeToImpact, 31536), NMul(asteroidMass, 1000))

\* in tenths
\* the tiers with > in place of >=
calculateTimeFactor_Strict(timeToImpact) ==
    IF NGT(timeToImpact, 20) THEN 10
    ELSE IF NGT(timeToImpact, 10) THEN 9
    ELSE IF NGT(timeToImpact, 5) THEN 7
    ELSE IF NGT(timeToImpact, 2) THEN 5
    ELSE IF NGT(timeToImpact, 1) THEN 3
    ELSE 1

\* the success probability factor, in tenths
calculateTimeFactor(timeToImpact) ==
    IF NGE(timeToImpact, 20) THEN 10
    ELSE IF NGE(timeToImpact, 10) THEN 9
    ELSE IF NGE(timeToImpact, 5) THEN 7
    ELSE IF NGE(timeToImpact, 2) THEN 5
    ELSE IF NGE(timeToImpact, 1) THEN 3
    ELSE 1

\* deltaV * timeToImpact * 31536000, in km
calculateMissDistance(deltaV, timeToImpact, asteroidVelocity) ==
    MulDiv(deltaV, NMul(timeToImpact, 31536), 1000000)

\* a recommendation that never compares the two delta-v values
generateRecommendation_TierOnly(achievableDeltaV, requiredDeltaV, timeToImpact, method) ==
    IF NGT(timeToImpact, 15) THEN "Gravity tractor recommended"
    ELSE IF NGT(timeToImpact, 5) THEN "Kinetic impactor recommended"
    ELSE IF NGT(timeToImpact, 2) THEN "Nuclear disruption necessary"
    ELSE "Emergency measures required"

\* the text up to the first " - "; the tiered texts end in the method's readiness
generateRecommendation(achievableDeltaV, requiredDeltaV, timeToImpact, method) ==
    IF NGE(achievableDeltaV, requiredDeltaV)
    THEN IF NGT(timeToImpact, 15) THEN "Gravity tractor recommended"
         ELSE IF NGT(timeToImpact, 5) THEN "Kinetic impactor recommended"
         ELSE IF NGT(timeToImpact, 2) THEN "Nuclear disruption necessary"
         ELSE "Emergency measures required"
    ELSE "Combined approach required"

\* a risk assessment handed the formatted distance ("12.74 thousand km"),
\* whose parseFloat never exceeds 1e9
assessRisk_NeverLow(asteroidData, willMiss, missDistance) ==
    IF willMiss THEN "MEDIUM" ELSE "HIGH"

\* parseFloat(missDistance) > 1e9 metres
assessRisk(asteroidData, willMiss, missDistance) ==
    IF willMiss
    THEN IF NGT(missDistance, 1000000) THEN "LOW" ELSE "MEDIUM"
    ELSE "HIGH"

\* (successProbability * 100).toFixed(1) + '%': the text is the number of
\* tenths of a percent followed by a percent sign ("NaN%" for NaN)
PercentString(thousandths) == [type |-> "string", tenths |-> thousandths, suffix |-> "%"]

\* ToNumber(string), the conversion the * operator applies: a numeric string
\* converts to its number, a string with any other character to NaN
ToNumber(str) == IF str.suffix = "" THEN str.tenths ELSE NaN

\* parseFloat(string): the longest numeric prefix, NaN when there is none
parseFloat(str) == str.tenths

\* the switch(defenseMethod) of calculateDeflection; no case matches an
\* inherited key, which leaves achievableDeltaV = 0
DeflectionSwitch(defenseMethod, asteroidMass, timeToImpact) ==
    CASE defenseMethod = "KINETIC_IMPACTOR" ->
           calculateKineticDeflection(asteroidMass, timeToImpact)
      [] defenseMethod = "GRAVITY_TRACTOR" ->
           calculateGravityTractorDeflection(asteroidMass, timeToImpact)
      [] defenseMethod = "NUCLEAR_DEVICE" ->
           calculateNuclearDeflection(asteroidMass, timeToImpact)
      [] defenseMethod = "LASER_ABLATION" ->
           calculateLaserDeflection(asteroidMass, timeToImpact)
      [] defenseMethod = "ION_BEAM" ->
           calculateIonBeamDeflection(asteroidMass, timeToImpact)
      [] OTHER -> 0

\* the object calculateDeflection returns, from its locals
DeflectionResult(asteroidData, timeToImpact, method, requiredDeltaV, achievableDeltaV, successProbability, missDistance, willMiss) ==
    [threw              |-> FALSE,
     method             |-> Field(method, "name"),
     requiredDeltaV     |-> requiredDeltaV,
     achievableDeltaV   |-> achievableDeltaV,
     successProbability |-> PercentString(successProbability),
     willMiss           |-> willMiss,
     missDistance       |-> missDistance,
     timeRequired       |-> NumField(method, "developmentTime"),
     cost               |-> NumField(method, "cost"),
     technologyReadiness |-> NumField(method, "technologyReadiness"),
     recommendation     |-> generateRecommendation(achievableDeltaV, requiredDeltaV,
                                                   timeToImpact, method),
     riskAssessment     |-> assessRisk(asteroidData, willMiss, missDistance)]

\* calculateDeflection once achievableDeltaV *= method.effectiveness is done
DeflectionFrom(asteroidData, timeToImpact, method, requiredDeltaV, achievableDeltaV) ==
    DeflectionResult(asteroidData, timeToImpact, method, requiredDeltaV, achievableDeltaV,
                     NMul(NumField(method, "successRate"), calculateTimeFactor(timeToImpact)),
                     calculateMissDistance(achievableDeltaV, timeToImpact,
                                           NumField(asteroidData, "velocity")),
                     NGE(achievableDeltaV, requiredDeltaV))

\* calculateDeflection after the lookup this.defenseMethods[defenseMethod]
DeflectionWith(asteroidData, defenseMethod, timeToImpact, method) ==
    IF Not(method)
    THEN [threw |-> TRUE, error |-> "Unknown defense method"]
    ELSE DeflectionFrom(asteroidData, timeToImpact, method,
                        calculateRequiredDeltaV(asteroidData, timeToImpact),
                        MulDiv(DeflectionSwitch(defenseMethod,
                                                calculateAsteroidMass(asteroidData),
                                                timeToImpact),
                               NumField(method, "effectiveness"), 10))

calculateDeflection(asteroidData, defenseMethod, timeToImpact) ==
    DeflectionWith(asteroidData, defenseMethod, timeToImpact, LookupMethod(defenseMethod))

-----------------------------------------------------------------------------
(* Defense Planner: generateDefensePlan *)

\* probability * diameter^2 * velocity^2, in units of 1e-6
calculateThreatScore(asteroid) ==
    LET probability == OrElse(NumField(asteroid, "impactProbability"), 0)
        diameter    == OrElse(NumField(asteroid, "diameter"), 1)
        velocity    == OrElse(NumField(asteroid, "velocity"), 20)
    IN  NMul(probability, NMul(NMul(diameter, diameter), NMul(velocity, velocity)))

calculateThreatLevel(asteroid) ==
    LET score == calculateThreatScore(asteroid)
    IN  IF NGT(score, 1000 * 1000000) THEN "CATASTROPHIC"
        ELSE IF NGT(score, 100 * 1000000) THEN "SEVERE"
        ELSE IF NGT(score, 10 * 1000000) THEN "HIGH"
        ELSE IF NGT(score, 1 * 1000000) THEN "MEDIUM"
        ELSE "LOW"

\* a comparator that also moves b before a when the scores are equal
ComparatorPositive_OrEqual(a, b) == NGE(calculateThreatScore(b), calculateThreatScore(a))

\* the comparator (a, b) => scoreB - scoreA puts b before a when it is positive
ComparatorPositive(a, b) == NGT(calculateThreatScore(b), calculateThreatScore(a))

\* Array.prototype.sort is stable: x goes after every element it does not precede
RECURSIVE InsertStable(_, _)
InsertStable(sorted, x) ==
    IF sorted = <<>> THEN <<x>>
    ELSE LET last == sorted[Len(sorted)]
         IN  IF ComparatorPositive(last, x)
             THEN Append(InsertStable(SubSeq(sorted, 1, Len(sorted) - 1), x), last)
             ELSE Append(sorted, x)

RECURSIVE SortFrom(_, _)
SortFrom(sorted, rest) ==
    IF rest = <<>> THEN sorted
    ELSE SortFrom(InsertStable(sorted, Head(rest)), Tail(rest))

\* asteroidThreats.sort(...): sorts the caller's array in place and returns it
prioritizeThreats(threats) == SortFrom(<<>>, threats)

\* successProbability * (willMiss ? 1 : 0.5) * (technologyReadiness / 10),
\* in units of 1/200 of a percent
MethodScore(deflectionResult, methodData) ==
    NMul(NMul(ToNumber(deflectionResult.successProbability),
              IF deflectionResult.willMiss THEN 2 ELSE 1),
         methodData.technologyReadiness)

\* if (score > bestScore) { bestScore = score; bestMethod = method; }
\* best is <<bestMethod, bestScore>>
Better(best, method, score) ==
    IF NGT(score, best[2]) THEN <<method, score>> ELSE best

\* the methods.forEach of selectBestMethod from catalog position i on
RECURSIVE SelectFrom(_, _, _, _, _)
SelectFrom(i, best, asteroid, horizon, availableBudget) ==
    IF i > Len(MethodKeys) THEN best[1]
    ELSE SelectFrom(i + 1,
                    IF defenseMethods[MethodKeys[i]].cost > availableBudget
                    THEN best
                    ELSE Better(best, MethodKeys[i],
                                MethodScore(calculateDeflection(asteroid, MethodKeys[i],
                                                                horizon),
                                            defenseMethods[MethodKeys[i]])),
                    asteroid, horizon, availableBudget)

\* bestMethod = null, bestScore = -1
selectBestMethod(asteroid, horizon, availableBudget) ==
    SelectFrom(1, <<Null, (0 - 1) * 200>>, asteroid, horizon, availableBudget)

\* the plan object literal of generateDefensePlan
NewPlan(b) ==
    [timeline           |-> <<>>,
     resourceAllocation |-> <<>>,
     successProbability |-> [type |-> "number", value |-> 0],
     totalCost          |-> 0,
     remainingBudget    |-> b,
     threatsMitigated   |-> 0]

\* a commit that forgets defensePlan.threatsMitigated++
Commit_NoCount(plan, threat, pos, bestMethod, cost, deflectionResult) ==
    [plan EXCEPT
       !.timeline = Append(@, [year        |-> pos - 1,
                               asteroid    |-> Field(threat, "name"),
                               method      |-> bestMethod,
                               cost        |-> cost,
                               successProbability |-> deflectionResult.successProbability,
                               threatLevel |-> calculateThreatLevel(threat)]),
       !.totalCost = @ + cost,
       !.remainingBudget = @ - cost]

\* timeline.push({...}) and the three updates of the plan
Commit(plan, threat, pos, bestMethod, cost, deflectionResult) ==
    [plan EXCEPT
       !.timeline = Append(@, [year        |-> pos - 1,
                               asteroid    |-> Field(threat, "name"),
                               method      |-> bestMethod,
                               cost        |-> cost,
                               successProbability |-> deflectionResult.successProbability,
                               threatLevel |-> calculateThreatLevel(threat)]),
       !.totalCost = @ + cost,
       !.remainingBudget = @ - cost,
       !.threatsMitigated = @ + 1]

\* a callback that books a kinetic impactor for every threat, whatever was
\* selected and whatever is left of the budget
PlanWith_Unchecked(plan, threat, pos, horizon, bestMethod) ==
    [bestMethod |-> bestMethod,
     plan |-> Commit(plan, threat, pos, "KINETIC_IMPACTOR",
                     defenseMethods["KINETIC_IMPACTOR"].cost,
                     calculateDeflection(threat, "KINETIC_IMPACTOR", horizon))]

\* the forEach callback after const bestMethod = ...; it leaves the plan and,
\* for the record, the method selectBestMethod returned
PlanWith(plan, threat, pos, horizon, bestMethod) ==
    [bestMethod |-> bestMethod,
     plan |->
       IF bestMethod # Null /\ plan.remainingBudget > 0
       THEN IF defenseMethods[bestMethod].cost <= plan.remainingBudget
            THEN Commit(plan, threat, pos, bestMethod, defenseMethods[bestMethod].cost,
                        calculateDeflection(threat, bestMethod, horizon))
            ELSE plan
       ELSE plan]

\* the body of prioritizedThreats.forEach((threat, index) => ...); pos is the
\* 1-based position, so the callback's index is pos - 1 (the year is kept
\* relative to new Date().getFullYear())
PlanThreat(plan, threat, pos, horizon) ==
    PlanWith(plan, threat, pos, horizon,
             selectBestMethod(threat, horizon, plan.remainingBudget))

\* timeline.reduce((acc, mission) => acc * parseFloat(...) / 100, 1), acc in 1e-6
RECURSIVE ReduceSuccess(_, _)
ReduceSuccess(timeline, acc) ==
    IF timeline = <<>> THEN acc
    ELSE ReduceSuccess(Tail(timeline),
                       MulDiv(acc, parseFloat(Head(timeline).successProbability), 1000))

\* Number.prototype.toFixed(1) of a percentage held in 1e-4 percent: tenths, rounded
ToFixed1(x) == IF IsFinite(x) THEN (x + 500) \div 1000 ELSE x

\* a reduce whose callback drops the accumulator: the last mission's probability
calculateOverallSuccess_Last(timeline) ==
    IF Len(timeline) = 0 THEN [type |-> "number", value |-> 0]
    ELSE [type |-> "string",
          tenths |-> ToFixed1(ReduceSuccess(<<timeline[Len(timeline)]>>, 1000000)),
          suffix |-> "%"]

calculateOverallSuccess(timeline) ==
    IF Len(timeline) = 0 THEN [type |-> "number", value |-> 0]
    ELSE LET product == ReduceSuccess(timeline, 1000000)
         IN  [type |-> "string", tenths |-> ToFixed1(product), suffix |-> "%"]

\* Math.round of a value held in hundredths
Round100(x) == IF IsFinite(x) THEN (x + 50) \div 100 ELSE x

\* one bucket of allocateResources: totalCost * percent / 100, scaled by
\* availableBudget / totalCost when over budget, formatted `$${Math.round(..)}M`
Bucket(totalCost, availableBudget, percent) ==
    LET share  == totalCost * percent                            \* hundredths
        scaled == IF totalCost > availableBudget
                  THEN IF totalCost = 0
                       THEN NMul(share, NDiv(availableBudget, totalCost))
                       ELSE MulDiv(share, availableBudget, totalCost)
                  ELSE share
    IN  [type |-> "string", prefix |-> "$", value |-> Round100(scaled), suffix |-> "M"]

allocateResources(totalCost, availableBudget) ==
    [research    |-> Bucket(totalCost, availableBudget, 15),
     development |-> Bucket(totalCost, availableBudget, 25),
     deployment  |-> Bucket(totalCost, availableBudget, 45),
     monitoring  |-> Bucket(totalCost, availableBudget, 10),
     contingency |-> Bucket(totalCost, availableBudget, 5)]

\* the three assignments after the forEach; efficiency in percent
FinishPlan(plan, threats, b) ==
    [timeline           |-> plan.timeline,
     resourceAllocation |-> allocateResources(plan.totalCost, b),
     successProbability |-> calculateOverallSuccess(plan.timeline),
     totalCost          |-> plan.totalCost,
     remainingBudget    |-> plan.remainingBudget,
     threatsMitigated   |-> plan.threatsMitigated,
     efficiency         |-> NDiv(NMul(plan.threatsMitigated, 100), Len(threats))]

-----------------------------------------------------------------------------
(* Inputs of the Defense Planner *)

MaxThreats == 3

\* asteroid records as the callers build them; a missing property is absent
Asteroids ==
    { [name |-> "Apophis", diameter |-> 3, velocity |-> 30, impactProbability |-> 27,
       composition |-> "stony"],
      [name |-> "Bennu", diameter |-> 5, velocity |-> 28, impactProbability |-> 4,
       composition |-> "carbonaceous"],
      [name |-> "Twin", diameter |-> 5, velocity |-> 28, impactProbability |-> 4,
       composition |-> "Iron"],
      [name |-> "Comet", diameter |-> 10, velocity |-> 20, impactProbability |-> 5000,
       composition |-> "ice"],
      [name |-> "Unknown", diameter |-> 1] }

ThreatLists == UNION {[1..n -> Asteroids] : n \in 0..MaxThreats}

Budgets == {-100, 0, 499, 500, 1300, 2500, 6000}

TimeHorizons == {0, 1, 4, 7, 12, 25}

MethodIds == CatalogIds \cup ObjectPrototypeKeys \cup {"UNKNOWN", ""}

\* timeToImpact of a direct calculateDeflection call, in years: the horizons and
\* the years at which a tier of calculateTimeFactor or generateRecommendation
\* begins
ImpactTimes == TimeHorizons \cup {2, 5, 10, 15, 20}

\* timeline entries as the forEach callback pushes them: one per catalog method
\* and horizon, for the first threat of a list
Missions ==
    {Commit(NewPlan(0), asteroid, 1, methodId, defenseMethods[methodId].cost,
            calculateDeflection(asteroid, methodId, horizon)).timeline[1] :
        asteroid \in {a \in Asteroids : Field(a, "name") = "Apophis"},
        methodId \in CatalogIds, horizon \in TimeHorizons}

MaxMissions == 2

Timelines == UNION {[1..n -> Missions] : n \in 0..MaxMissions}

\* plan.totalCost after no, one or two commits
\* the composition names of the two density tables, and one of neither
Compositions == {"stony", "iron", "carbonaceous", "metal", "rock", "ice", "regolith"}

\* records for direct calls of the formulas: one per composition, and records
\* whose diameter, velocity or impactProbability is NaN, zero or negative
FormulaAsteroids ==
    Asteroids
      \cup {[name |-> c, diameter |-> 3, velocity |-> 30, impactProbability |-> 27,
             composition |-> c] : c \in Compositions}
      \cup {[name |-> "invalid", diameter |-> d, velocity |-> 30, impactProbability |-> 27,
             composition |-> "rock"] : d \in {NaN, 0, 0 - 3}}
      \cup {[name |-> "invalid", diameter |-> 3, velocity |-> v, impactProbability |-> 27,
             composition |-> "rock"] : v \in {NaN, 0, 0 - 30}}
      \cup {[name |-> "invalid", diameter |-> 3, velocity |-> 30, impactProbability |-> p,
             composition |-> "rock"] : p \in {NaN, 0 - 27}}

TotalCosts ==
    {0} \cup {defenseMethods[a].cost : a \in CatalogIds}
        \cup {defenseMethods[a].cost + defenseMethods[b].cost : a, b \in CatalogIds}

-----------------------------------------------------------------------------
(* Defense Planner: actions *)

PlannerInit ==
    /\ asteroidThreats = <<>>
    /\ budget = 0
    /\ timeHorizon = 0
    /\ defensePlan = NewPlan(0)
    /\ index = 1
    /\ selected = <<>>
    /\ planPc = "idle"
    /\ inputOrder = <<>>

DeflectionInit == deflection = [called |-> FALSE]

DefenseCallInit == defenseCall = [op |-> "none"]

\* generateDefensePlan up to the start of the forEach; a call reads nothing an
\* earlier call left behind, so one call is followed from its arguments to its
\* return value
GenerateDefensePlan(threats, b, horizon) ==
    /\ planPc = "idle"
    /\ asteroidThreats' = prioritizeThreats(threats)
    /\ budget' = b
    /\ timeHorizon' = horizon
    /\ defensePlan' = NewPlan(b)
    /\ index' = 1
    /\ selected' = <<>>
    /\ planPc' = "forEach"
    /\ inputOrder' = threats
    /\ UNCHANGED <<deflection, defenseCall, orbitVars, impact, physicsCall>>

\* the state after one call of the callback with outcome out
Iterated(out) ==
    /\ defensePlan' = out.plan
    /\ selected' = Append(selected, [threat          |-> asteroidThreats[index],
                                     availableBudget |-> defensePlan.remainingBudget,
                                     bestMethod      |-> out.bestMethod])

\* whether one call of the forEach callback throws: the only throw statement
\* it can reach is calculateDeflection's, called by selectBestMethod for each
\* affordable method and again for the selected one
CallbackThrows(plan, threat, horizon) ==
    \E methodId \in CatalogIds :
        /\ ~(defenseMethods[methodId].cost > plan.remainingBudget)
        /\ calculateDeflection(threat, methodId, horizon).threw

\* one call of the forEach callback; an exception leaves generateDefensePlan
ForEachThreat ==
    /\ planPc = "forEach"
    /\ index <= Len(asteroidThreats)
    /\ IF CallbackThrows(defensePlan, asteroidThreats[index], timeHorizon)
       THEN /\ planPc' = "threw"
            /\ UNCHANGED <<defensePlan, selected, index>>
       ELSE /\ Iterated(PlanThreat(defensePlan, asteroidThreats[index], index, timeHorizon))
            /\ index' = index + 1
            /\ planPc' = planPc
    /\ UNCHANGED <<asteroidThreats, budget, timeHorizon, inputOrder>>
    /\ UNCHANGED <<deflection, defenseCall, orbitVars, impact, physicsCall>>

\* the statements after the forEach, and the return
ReturnPlan ==
    /\ planPc = "forEach"
    /\ index > Len(asteroidThreats)
    /\ defensePlan' = FinishPlan(defensePlan, asteroidThreats, budget)
    /\ planPc' = "done"
    /\ UNCHANGED <<asteroidThreats, budget, timeHorizon, index, selected, inputOrder>>
    /\ UNCHANGED <<deflection, defenseCall, orbitVars, impact, physicsCall>>

\* a direct call of calculateOverallSuccess; the method reads nothing but its
\* argument, so one call is followed from its argument to its return value
CalculateOverallSuccessCall(timeline) ==
    /\ defenseCall.op = "none"
    /\ defenseCall' = [op       |-> "calculateOverallSuccess",
                       timeline |-> timeline,
                       result   |-> calculateOverallSuccess(timeline)]
    /\ UNCHANGED <<plannerVars, deflection, orbitVars, impact, physicsCall>>

\* a direct call of allocateResources
AllocateResourcesCall(totalCost, availableBudget) ==
    /\ defenseCall.op = "none"
    /\ defenseCall' = [op              |-> "allocateResources",
                       totalCost       |-> totalCost,
                       availableBudget |-> availableBudget,
                       result          |-> allocateResources(totalCost, availableBudget)]
    /\ UNCHANGED <<plannerVars, deflection, orbitVars, impact, physicsCall>>

\* a direct call of calculateThreatScore
CalculateThreatScoreCall(asteroid) ==
    /\ defenseCall.op = "none"
    /\ defenseCall' = [op       |-> "calculateThreatScore",
                       asteroid |-> asteroid,
                       result   |-> calculateThreatScore(asteroid)]
    /\ UNCHANGED <<plannerVars, deflection, orbitVars, impact, physicsCall>>

\* a direct call of calculateAsteroidMass
CalculateAsteroidMassCall(asteroidData) ==
    /\ defenseCall.op = "none"
    /\ defenseCall' = [op       |-> "calculateAsteroidMass",
                       asteroid |-> asteroidData,
                       result   |-> calculateAsteroidMass(asteroidData)]
    /\ UNCHANGED <<plannerVars, deflection, orbitVars, impact, physicsCall>>

\* a direct call of calculateDeflection; the method keeps no state, so one call
\* is followed from its arguments to its return value
CalculateDeflectionCall(asteroidData, defenseMethod, timeToImpact) ==
    /\ ~deflection.called
    /\ UNCHANGED <<plannerVars, defenseCall, orbitVars, impact, physicsCall>>
    /\ deflection' =
                  [called       |-> TRUE,
                   asteroidData |-> asteroidData,
                   defenseMethod |-> defenseMethod,
                   timeToImpact |-> timeToImpact,
                   result       |-> calculateDeflection(asteroidData, defenseMethod,
                                                        timeToImpact)]

-----------------------------------------------------------------------------
(* Orbital Propagator                                                        *)
(* Units: angles in quarter turns (2 pi is TwoPi = 4 units, so that sine and *)
(* cosine are exact), lengths in quarters of a scene unit, eccentricity in   *)
(* halves, time in the unit of orbitalPeriod.                                *)

TwoPi == 4

Cos(angle) ==
    IF ~IsFinite(angle) THEN NaN
    ELSE CASE angle % TwoPi = 0 -> 1
           [] angle % TwoPi = 1 -> 0
           [] angle % TwoPi = 2 -> -1
           [] angle % TwoPi = 3 -> 0

Sin(angle) ==
    IF ~IsFinite(angle) THEN NaN
    ELSE CASE angle % TwoPi = 0 -> 0
           [] angle % TwoPi = 1 -> 1
           [] angle % TwoPi = 2 -> 0
           [] angle % TwoPi = 3 -> -1

HasNaN(v) == v[1] = NaN \/ v[2] = NaN \/ v[3] = NaN

\* Vector3.applyAxisAngle about (1,0,0); a NaN component spreads to all three
RotateX(v, angle) ==
    IF HasNaN(v) THEN <<NaN, NaN, NaN>>
    ELSE <<v[1],
           v[2] * Cos(angle) - v[3] * Sin(angle),
           v[2] * Sin(angle) + v[3] * Cos(angle)>>

\* Vector3.applyAxisAngle about (0,0,1)
RotateZ(v, angle) ==
    IF HasNaN(v) THEN <<NaN, NaN, NaN>>
    ELSE <<v[1] * Cos(angle) - v[2] * Sin(angle),
           v[1] * Sin(angle) + v[2] * Cos(angle),
           v[3]>>

VecAdd(v, w) == <<NAdd(v[1], w[1]), NAdd(v[2], w[2]), NAdd(v[3], w[3])>>

\* the defaultParams literal of registerOrbitalBody
defaultParams ==
    [semiMajorAxis |-> 12, eccentricity |-> 0, inclination |-> 0,
     argumentOfPeriapsis |-> 0, longitudeOfAscendingNode |-> 0, trueAnomaly |-> 0,
     orbitalPeriod |-> 100, clockwise |-> FALSE]

\* { ...defaultParams, ...orbitParams }
Spread(defaults, params) ==
    [k \in DOMAIN defaults \cup DOMAIN params |->
        IF k \in DOMAIN params THEN params[k] ELSE defaults[k]]

\* a radius that takes 1 - e for 1 - e * e
OrbitRadius_Linear(orbit, anomaly) ==
    NDiv(orbit.semiMajorAxis * (4 - 2 * orbit.eccentricity),
         NMul(2, NAdd(2, NMul(orbit.eccentricity, Cos(anomaly)))))

\* a * (1 - e * e) / (1 + e * Math.cos(anomaly))
OrbitRadius(orbit, anomaly) ==
    LET a == orbit.semiMajorAxis
        e == orbit.eccentricity
    IN  NDiv(a * (4 - e * e), NMul(2, NAdd(2, NMul(e, Cos(anomaly)))))

\* the position updateBodyPosition computes for a body
OrbitPosition(orbit, anomaly, center) ==
    LET r  == OrbitRadius(orbit, anomaly)
        p0 == <<NMul(r, Cos(anomaly)), NMul(r, Sin(anomaly)), 0>>
        p1 == IF orbit.inclination # 0 THEN RotateX(p0, orbit.inclination) ELSE p0
        p2 == IF orbit.argumentOfPeriapsis # 0
              THEN RotateZ(p1, orbit.argumentOfPeriapsis) ELSE p1
        p3 == IF orbit.longitudeOfAscendingNode # 0
              THEN RotateZ(p2, orbit.longitudeOfAscendingNode) ELSE p2
    IN  VecAdd(p3, center)

\* ---- the registry: a Map, kept as the sequence of its entries in insertion order
Keys(bodies) == {bodies[i].id : i \in 1..Len(bodies)}

Has(bodies, id) == id \in Keys(bodies)

Get(bodies, id) == bodies[CHOOSE i \in 1..Len(bodies) : bodies[i].id = id]

\* a registry kept as a list: every set appends an entry
MapSet_Append(bodies, entry) == Append(bodies, entry)

\* Map.prototype.set: a new key is appended, an existing key keeps its place
MapSet(bodies, entry) ==
    IF Has(bodies, entry.id)
    THEN [i \in 1..Len(bodies) |-> IF bodies[i].id = entry.id THEN entry ELSE bodies[i]]
    ELSE Append(bodies, entry)

\* Map.prototype.delete
MapDelete(bodies, id) == SelectSeq(bodies, LAMBDA entry : entry.id # id)

\* the outcome of a method: the registry, the sinks, whether the call never
\* returns, and the value returned or the exception thrown
Outcome(bodies, snk, stuck, result) ==
    [bodies |-> bodies, sinks |-> snk, hung |-> stuck, result |-> result]

Void == [type |-> "undefined"]

updateBodyPosition(bodies, snk, center, id) ==
    IF ~Has(bodies, id) THEN Outcome(bodies, snk, FALSE, Void)
    ELSE LET bodyData == Get(bodies, id)
             position == OrbitPosition(bodyData.orbit, bodyData.currentAnomaly, center)
         IN  Outcome(bodies, [snk EXCEPT ![bodyData.object3D] = position], FALSE, Void)

registerOrbitalBody(bodies, snk, center, id, object3D, orbitParams) ==
    LET merged  == Spread(defaultParams, orbitParams)
        omega   == NDiv(TwoPi, merged.orbitalPeriod)
        orbit   == Spread(merged, [angularVelocity |->
                                     IF merged.clockwise THEN NMul(omega, -1) ELSE omega])
        entry   == [id |-> id, object3D |-> object3D, orbit |-> orbit,
                    currentAnomaly |-> orbit.trueAnomaly, lastUpdate |-> 0]
    IN  updateBodyPosition(MapSet(bodies, entry), snk, center, id)

\* while (x > 2 * Math.PI) x -= 2 * Math.PI
RECURSIVE WhileAbove(_)
WhileAbove(x) == IF x > TwoPi THEN WhileAbove(x - TwoPi) ELSE x

\* while (x < 0) x += 2 * Math.PI
RECURSIVE WhileBelow(_)
WhileBelow(x) == IF x < 0 THEN WhileBelow(x + TwoPi) ELSE x

updateOrbitalBody(bodies, snk, center, id, deltaTime) ==
    IF ~Has(bodies, id) THEN Outcome(bodies, snk, FALSE, Void)
    ELSE LET bodyData == Get(bodies, id)
             advanced == NAdd(bodyData.currentAnomaly,
                              NMul(bodyData.orbit.angularVelocity, deltaTime))
             elapsed  == bodyData.lastUpdate + deltaTime
         IN  IF advanced \in {PosInf, NegInf}
             \* subtracting 2 pi from Infinity leaves Infinity: the loop never ends
             THEN Outcome(MapSet(bodies, [bodyData EXCEPT !.currentAnomaly = advanced,
                                                          !.lastUpdate = elapsed]),
                          snk, TRUE, Void)
             ELSE LET wrapped == IF advanced = NaN THEN NaN
                                 ELSE WhileBelow(WhileAbove(advanced))
                  IN  updateBodyPosition(
                          MapSet(bodies, [bodyData EXCEPT !.currentAnomaly = wrapped,
                                                          !.lastUpdate = elapsed]),
                          snk, center, id)

\* this.orbitalBodies.forEach((bodyData, id) => this.updateOrbitalBody(id, deltaTime))
RECURSIVE UpdateFrom(_, _, _, _, _)
UpdateFrom(i, bodies, snk, center, deltaTime) ==
    IF i > Len(bodies) THEN Outcome(bodies, snk, FALSE, Void)
    ELSE LET one == updateOrbitalBody(bodies, snk, center, bodies[i].id, deltaTime)
         IN  IF one.hung THEN one
             ELSE UpdateFrom(i + 1, one.bodies, one.sinks, center, deltaTime)

update(bodies, snk, center, deltaTime) == UpdateFrom(1, bodies, snk, center, deltaTime)

\* a removal that clears the whole Map
removeOrbitalBody_Clear(bodies, snk, id) == Outcome(<<>>, snk, FALSE, Void)

\* a removal that forgets the delete
removeOrbitalBody_Keep(bodies, snk, id) == Outcome(bodies, snk, FALSE, Void)

removeOrbitalBody(bodies, snk, id) == Outcome(MapDelete(bodies, id), snk, FALSE, Void)

\* speed^2 = G * (2 / r - 1 / a) with G = 1, as the fraction <<numerator, denominator>>
\* in scene units; the direction (-sin, cos, 0) is already of length 1
getOrbitalVelocity(bodies, snk, id) ==
    IF ~Has(bodies, id)
    THEN Outcome(bodies, snk, FALSE,
                 [type |-> "Vector3", direction |-> <<0, 0, 0>>, speedSquared |-> <<0, 1>>])
    ELSE LET bodyData == Get(bodies, id)
             r == OrbitRadius(bodyData.orbit, bodyData.currentAnomaly)
             a == bodyData.orbit.semiMajorAxis
         IN  Outcome(bodies, snk, FALSE,
                     [type |-> "Vector3",
                      direction |-> <<NMul(Sin(bodyData.currentAnomaly), -1),
                                      Cos(bodyData.currentAnomaly), 0>>,
                      speedSquared |-> <<NMul(4, NAdd(NMul(2, a), NMul(r, -1))),
                                         NMul(r, a)>>])

\* Map.prototype.get: undefined for a missing key
getOrbitalData(bodies, snk, id) ==
    IF Has(bodies, id)
    THEN Outcome(bodies, snk, FALSE, [type |-> "bodyData", value |-> Get(bodies, id)])
    ELSE Outcome(bodies, snk, FALSE, Void)

\* a path that stops one point short: for (i = 0; i < segments; i++)
PathPoints_Open(orbit, segments, center) ==
    [k \in 1..segments |-> OrbitPosition(orbit, ((k - 1) * TwoPi) \div segments, center)]

\* the point createOrbitPath computes for loop index i; segments divides the
\* quarter turns of a revolution in every call made here
PathPoint(orbit, i, segments, center) ==
    LET angle == (i * TwoPi) \div segments
        r     == NDiv(orbit.semiMajorAxis * (4 - orbit.eccentricity * orbit.eccentricity),
                      NMul(2, NAdd(2, NMul(orbit.eccentricity, Cos(angle)))))
        point == <<NMul(r, Cos(angle)), NMul(r, Sin(angle)), 0>>
        tilted  == IF orbit.inclination # 0 THEN RotateX(point, orbit.inclination) ELSE point
        turned  == IF orbit.argumentOfPeriapsis # 0
                   THEN RotateZ(tilted, orbit.argumentOfPeriapsis) ELSE tilted
        noded   == IF orbit.longitudeOfAscendingNode # 0
                   THEN RotateZ(turned, orbit.longitudeOfAscendingNode) ELSE turned
    IN  VecAdd(noded, center)

\* for (let i = 0; i <= segments; i++) points.push(point)
PathPoints(orbit, segments, center) ==
    [k \in 1..(segments + 1) |-> PathPoint(orbit, k - 1, segments, center)]

\* null for an unknown id, else the Line over the points
createOrbitPath(bodies, snk, center, id, segments) ==
    IF ~Has(bodies, id) THEN Outcome(bodies, snk, FALSE, [type |-> "null"])
    ELSE Outcome(bodies, snk, FALSE,
                 [type |-> "Line", bodyId |-> id,
                  points |-> PathPoints(Get(bodies, id).orbit, segments, center)])

\* this.orbitalBodies.forEach((bodyData, id) => this.updateBodyPosition(id))
RECURSIVE RefreshFrom(_, _, _, _)
RefreshFrom(i, bodies, snk, center) ==
    IF i > Len(bodies) THEN snk
    ELSE RefreshFrom(i + 1, bodies,
                     updateBodyPosition(bodies, snk, center, bodies[i].id).sinks, center)

\* this.earthCore = null, and a core mesh at a position
NoCore == [type |-> "null"]

CoreAt(position) == [type |-> "Mesh", position |-> position]

\* this.earthCore = earthCore and, for a mesh,
\* this.earthCenter.copy(earthCore.position)
setEarthCore(bodies, snk, center, core) ==
    [sinks       |-> snk,
     earthCenter |-> IF core # NoCore THEN core.position ELSE center,
     earthCore   |-> core]

\* copies newPosition to the centre and to the core mesh, if there is one, and
\* recomputes every body's position
setEarthCenter(bodies, snk, core, newPosition) ==
    [sinks       |-> RefreshFrom(1, bodies, snk, newPosition),
     earthCenter |-> newPosition,
     earthCore   |-> IF core # NoCore THEN CoreAt(newPosition) ELSE NoCore]

\* this.orbitalBodies.clear()
destroy(bodies, snk) == Outcome(<<>>, snk, FALSE, Void)

-----------------------------------------------------------------------------
(* Impact Physics: calculateImpactEffects                                    *)
(* Energy in terajoules (1e12 J).  The derived effect objects are modelled   *)
(* by the properties they carry and by the exception, if any, their          *)
(* evaluation raises.                                                        *)

\* every method the class ImpactPhysics defines
ImpactPhysicsMethods ==
    {"calculateKineticEnergy", "calculateImpactEffects", "calculateCraterFormation",
     "calculateSeismicEffects", "calculateIntensity", "getIntensityDescription",
     "calculateAtmosphericEffects", "calculateAirburstHeight",
     "calculateOverpressureRadius", "calculateTsunamiEffects", "calculateCoastalHeight",
     "calculateClimateEffects", "calculateEconomicImpact", "calculateCasualties",
     "getPopulationInRadius", "calculateCasualtyCosts", "assessSeverity",
     "calculateTorinoScale", "getMaterialProperty", "getEnergyEquivalent",
     "formatScientific", "formatCurrency", "getInfrastructureDensity",
     "estimateLongTermCasualties", "assessAgriculturalImpact",
     "calculateDeflectionRequirements", "simulateFragmentation"}

\* this.m(...) where the class defines no m: this.m is undefined, the call throws
TypeErrorNotAFunction(m) ==
    [threw |-> TRUE, error |-> "TypeError", message |-> <<"this", m, "is not a function">>]

\* the first of the methods called, in call order, that is no function of the class
RECURSIVE FirstMissing(_)
FirstMissing(calls) ==
    IF calls = <<>> THEN Null
    ELSE IF Head(calls) \notin ImpactPhysicsMethods THEN Head(calls)
    ELSE FirstMissing(Tail(calls))

\* an object literal whose property values call the methods `calls` in order
Evaluate(calls, properties) ==
    IF FirstMissing(calls) # Null THEN TypeErrorNotAFunction(FirstMissing(calls))
    ELSE [threw |-> FALSE, properties |-> properties]

\* the density table of this.materialProperties, kg/m^3
materialDensity == [rock |-> 3000, iron |-> 7800, carbonaceous |-> 2000, ice |-> 1000]

\* (this.materialProperties[composition] || this.materialProperties.rock).density
getMaterialDensity(composition) ==
    IF composition \in DOMAIN materialDensity THEN materialDensity[composition]
    ELSE IF composition \in ObjectPrototypeKeys THEN NaN
    ELSE materialDensity["rock"]

\* 0.5 * mass * (velocity * 1000)^2 with mass = density * (4/3) pi radius^3;
\* composition = 'rock' when the argument is undefined
calculateKineticEnergy(diameter, velocity, composition) ==
    LET density == getMaterialDensity(IF composition = Undefined THEN "rock" ELSE composition)
        radius  == NMul(diameter, 50)                                  \* m
        cube    == NMul(NMul(radius, radius), radius)
        volume  == NDiv(NMul(NDiv(cube, 1000), 4 * 355), 3 * 113)      \* 1e3 m^3
        mass    == NDiv(NMul(NDiv(density, 100), volume), 10)          \* kt
    IN  MulDiv(mass, NMul(velocity, velocity), 2)

calculateCraterFormation(energy, impactAngle, terrainType, composition) ==
    Evaluate(<<"formatScientific", "formatScientific">>,
             {"transientDiameter", "finalDiameter", "depth", "volume", "ejectaMass", "type"})

calculateSeismicEffects(energy, impactLocation) ==
    Evaluate(<<"calculateIntensity", "calculateIntensity", "calculateIntensity",
               "getIntensityDescription", "getIntensityDescription",
               "getIntensityDescription", "calculateFeltRadius", "calculateDamageRadius">>,
             {"magnitude", "intensity", "feltRadius", "damageRadius"})

calculateAtmosphericEffects(energy, diameter) ==
    Evaluate(<<"getMaterialProperty">>
                 \o (IF NGT(diameter, 1) THEN <<"calculateAirburstHeight">> ELSE <<>>)
                 \o <<"calculateOverpressureRadius">>,
             {"fireball", "airburst", "shockwave"})

\* null in water shallower than 100 m
calculateTsunamiEffects(energy, waterDepth, impactLocation) ==
    IF waterDepth < 100 THEN [threw |-> FALSE, properties |-> Null]
    ELSE Evaluate(<<"calculateCoastalHeight", "calculateInundationDistance",
                    "calculateTsunamiWarningTime", "estimateAffectedCoastline">>,
                  {"initialHeight", "coastalHeight", "inundationDistance", "warningTime",
                   "affectedCoastline"})

calculateClimateEffects(energy, ejectaMass) ==
    Evaluate(<<"assessAgriculturalImpact">>,
             {"globalEffects", "temperatureChange", "duration", "mechanisms",
              "agriculturalImpact"})

calculateEconomicImpact(craterDiameter, impactLocation, globalEffects) ==
    Evaluate(<<"getInfrastructureDensity", "calculateCasualtyCosts", "formatCurrency",
               "formatCurrency", "formatCurrency", "formatCurrency", "formatCurrency">>,
             {"infrastructure", "casualties", "agriculture", "global", "total", "gdpImpact"})

calculateCasualties(craterDiameter, impactLocation, terrainType) ==
    Evaluate(<<"getPopulationInRadius", "getPopulationInRadius", "getPopulationInRadius",
               "estimateLongTermCasualties">>,
             {"immediate", "severeInjuries", "moderateInjuries", "longTerm", "total"})

\* the statements of calculateImpactEffects in order; the first exception ends it
RECURSIVE FirstThrow(_)
FirstThrow(steps) ==
    IF steps = <<>> THEN [threw |-> FALSE]
    ELSE IF Head(steps).threw THEN Head(steps)
    ELSE FirstThrow(Tail(steps))

calculateImpactEffects(asteroidData, impactLocation, terrainData) ==
    LET energy      == calculateKineticEnergy(NumField(asteroidData, "diameter"),
                                              NumField(asteroidData, "velocity"),
                                              Field(asteroidData, "composition"))
        impactAngle == OrElse(NumField(asteroidData, "impactAngle"), 45)
        terrainType == IF Field(terrainData, "terrainType") = Undefined THEN "land"
                       ELSE terrainData.terrainType
        waterDepth  == OrElse(NumField(terrainData, "waterDepth"), 0)
        crater      == calculateCraterFormation(energy, impactAngle, terrainType,
                                                Field(asteroidData, "composition"))
        seismic     == calculateSeismicEffects(energy, impactLocation)
        atmospheric == calculateAtmosphericEffects(energy, NumField(asteroidData, "diameter"))
        tsunami     == IF terrainType = "ocean"
                       THEN calculateTsunamiEffects(energy, waterDepth, impactLocation)
                       ELSE [threw |-> FALSE, properties |-> Null]
        climate     == calculateClimateEffects(energy, Undefined)
        economic    == calculateEconomicImpact(Undefined, impactLocation, Undefined)
        casualties  == calculateCasualties(Undefined, impactLocation, terrainType)
        thrown      == FirstThrow(<<crater, seismic, atmospheric, tsunami, climate,
                                    economic, casualties>>)
    IN  IF thrown.threw THEN thrown
        ELSE Evaluate(<<"getEnergyEquivalent", "assessSeverity", "calculateTorinoScale">>,
                      {"energy", "crater", "seismic", "atmospheric", "tsunami", "climate",
                       "economic", "casualties", "severity", "torinoScale"})

\* Math.log10 of the arguments the model passes, in hundredths, rounded down
Log10(x) ==
    CASE x = 1    -> 0
      [] x = 2    -> 30
      [] x = 10   -> 100
      [] x = 101  -> 200
      [] x = 1001 -> 300
      [] x = NaN  -> NaN

\* Math.max(1, x) on hundredths: NaN when x is NaN
MaxOne(x) == IF x = NaN THEN NaN ELSE IF x > 100 THEN x ELSE 100

\* magnitude in tenths, distanceKm in km; the intensity in hundredths
calculateIntensity(magnitude, distanceKm) ==
    LET baseIntensity       == NAdd(NMul(magnitude, 20), 0 - 400)
        distanceAttenuation == NMul(Log10(NAdd(distanceKm, 1)), 2)
    IN  MaxOne(NAdd(baseIntensity, NMul(distanceAttenuation, 0 - 1)))

\* the scale object of getIntensityDescription
IntensityScale ==
    <<"Not felt", "Weak", "Slight", "Moderate", "Strong", "Very strong", "Severe",
      "Violent", "Extreme", "Catastrophic">>

\* scale[Math.floor(intensity)] || 'Unknown', intensity in hundredths
getIntensityDescription(intensity) ==
    IF IsFinite(intensity) /\ (intensity \div 100) \in 1..Len(IntensityScale)
    THEN IntensityScale[intensity \div 100]
    ELSE "Unknown"

\* magnitudes in tenths
Magnitudes == {0, 20, 25, 30, 40, 50, 55, 60, 70, 74, 75, 80, 95}

\* distances in km: the three calculateSeismicEffects passes, and 1 and 9
DistancesKm == {0, 1, 9, 100, 1000}

\* a ladder whose thresholds are reached at equality
assessSeverity_AtLeast(energy, casualties, economicImpact) ==
    IF NGE(energy, 10000000) \/ NGE(casualties, 1000000000) THEN "EXTINCTION LEVEL"
    ELSE IF NGE(energy, 1000000) \/ NGE(casualties, 100000000) THEN "GLOBAL CATASTROPHE"
    ELSE IF NGE(energy, 100000) \/ NGE(casualties, 10000000) THEN "CIVILIZATION THREAT"
    ELSE IF NGE(energy, 10000) \/ NGE(casualties, 1000000) THEN "REGIONAL CATASTROPHE"
    ELSE IF NGE(energy, 1000) \/ NGE(casualties, 100000) THEN "MAJOR DISASTER"
    ELSE IF NGE(energy, 100) \/ NGE(casualties, 10000) THEN "DISASTER"
    ELSE IF NGE(energy, 10) \/ NGE(casualties, 1000) THEN "SIGNIFICANT"
    ELSE "LOCALIZED"

\* energy in tenths of a megaton of TNT (4.184e14 J), so that
\* energyMT = energy / MEGATON_TNT is energy / 10; casualties in persons
assessSeverity(energy, casualties, economicImpact) ==
    IF NGT(energy, 10000000) \/ NGT(casualties, 1000000000) THEN "EXTINCTION LEVEL"
    ELSE IF NGT(energy, 1000000) \/ NGT(casualties, 100000000) THEN "GLOBAL CATASTROPHE"
    ELSE IF NGT(energy, 100000) \/ NGT(casualties, 10000000) THEN "CIVILIZATION THREAT"
    ELSE IF NGT(energy, 10000) \/ NGT(casualties, 1000000) THEN "REGIONAL CATASTROPHE"
    ELSE IF NGT(energy, 1000) \/ NGT(casualties, 100000) THEN "MAJOR DISASTER"
    ELSE IF NGT(energy, 100) \/ NGT(casualties, 10000) THEN "DISASTER"
    ELSE IF NGT(energy, 10) \/ NGT(casualties, 1000) THEN "SIGNIFICANT"
    ELSE "LOCALIZED"

\* NaN < x is false
NLT(a, b) == a # NaN /\ b # NaN /\ a < b

\* a rating that takes the higher value of a pair from probability 0.01 on
calculateTorinoScale_AtLeast(diameter, probability, energy) ==
    IF NLT(probability, 10) THEN 0
    ELSE IF NLT(energy, 1) THEN 1
    ELSE IF NLT(energy, 100) THEN (IF NGE(probability, 1000) THEN 3 ELSE 2)
    ELSE IF NLT(energy, 1000) THEN (IF NGE(probability, 1000) THEN 5 ELSE 4)
    ELSE IF NLT(energy, 10000) THEN (IF NGE(probability, 1000) THEN 7 ELSE 6)
    ELSE (IF NGE(probability, 1000) THEN 9 ELSE 8)

\* probability in units of 1e-5, energy in tenths of a megaton
calculateTorinoScale(diameter, probability, energy) ==
    IF NLT(probability, 10) THEN 0
    ELSE IF NLT(energy, 1) THEN 1
    ELSE IF NLT(energy, 100) THEN (IF NGT(probability, 1000) THEN 3 ELSE 2)
    ELSE IF NLT(energy, 1000) THEN (IF NGT(probability, 1000) THEN 5 ELSE 4)
    ELSE IF NLT(energy, 10000) THEN (IF NGT(probability, 1000) THEN 7 ELSE 6)
    ELSE (IF NGT(probability, 1000) THEN 9 ELSE 8)

\* energies at, just above and between the breakpoints of both ladders,
\* in tenths of a megaton
EnergiesMT ==
    {0, 1, 2, 10, 11, 99, 100, 101, 999, 1000, 1001, 9999, 10000, 10001, 100000, 100001,
     1000000, 1000001, 10000000, 10000001}

\* casualty counts at and just above the breakpoints
CasualtyCounts ==
    {0, 1000, 1001, 10000, 10001, 100000, 100001, 1000000, 1000001, 10000000, 10000001,
     100000000, 100000001, 1000000000, 1000000001}

\* economic totals, in billions USD
EconomicTotals == {0, 750}

\* probabilities at and around 0.0001 and 0.01, in units of 1e-5
Probabilities == {0, 9, 10, 11, 999, 1000, 1001, 100000}

ImpactAsteroids ==
    Asteroids \cup { [name |-> "Steep", diameter |-> 2, velocity |-> 17, impactAngle |-> 80,
                      impactProbability |-> 10000, composition |-> "iron"] }

ImpactLocations ==
    { [type |-> "urban", population |-> 1000000, populationDensity |-> 5000],
      [type |-> "rural", population |-> 2000],
      [type |-> "ocean", population |-> 0, distanceToShore |-> 300],
      [name |-> "unspecified"] }

\* the third argument; the default {} has no property
TerrainData ==
    { [note |-> "default"],
      [terrainType |-> "ocean", waterDepth |-> 4000],
      [terrainType |-> "ocean", waterDepth |-> 50],
      [terrainType |-> "sedimentary"],
      [terrainType |-> "crystalline"] }

ImpactInit == impact = [called |-> FALSE]

PhysicsCallInit == physicsCall = [op |-> "none"]

CalculateImpactEffectsCall(asteroidData, impactLocation, terrainData) ==
    /\ UNCHANGED <<plannerVars, deflection, defenseCall, orbitVars, physicsCall>>
    /\ impact' =
              [called |-> TRUE, asteroidData |-> asteroidData,
               impactLocation |-> impactLocation, terrainData |-> terrainData,
               result |-> calculateImpactEffects(asteroidData, impactLocation, terrainData)]

\* a direct call of calculateKineticEnergy with the fields of a record, as
\* calculateImpactEffects calls it; energy in terajoules
CalculateKineticEnergyCall(asteroidData) ==
    /\ physicsCall.op = "none"
    /\ physicsCall' = [op       |-> "calculateKineticEnergy",
                       asteroid |-> asteroidData,
                       result   |-> calculateKineticEnergy(NumField(asteroidData, "diameter"),
                                                           NumField(asteroidData, "velocity"),
                                                           Field(asteroidData, "composition"))]
    /\ UNCHANGED <<plannerVars, deflection, defenseCall, orbitVars, impact>>

\* a direct call of calculateIntensity
CalculateIntensityCall(magnitude, distanceKm) ==
    /\ physicsCall.op = "none"
    /\ physicsCall' = [op         |-> "calculateIntensity",
                       magnitude  |-> magnitude,
                       distanceKm |-> distanceKm,
                       result     |-> calculateIntensity(magnitude, distanceKm)]
    /\ UNCHANGED <<plannerVars, deflection, defenseCall, orbitVars, impact>>

\* getIntensityDescription called with the intensity calculateIntensity returned,
\* as calculateSeismicEffects does
GetIntensityDescriptionCall ==
    /\ physicsCall.op = "calculateIntensity"
    /\ physicsCall' = [op         |-> "getIntensityDescription",
                       magnitude  |-> physicsCall.magnitude,
                       distanceKm |-> physicsCall.distanceKm,
                       intensity  |-> physicsCall.result,
                       result     |-> getIntensityDescription(physicsCall.result)]
    /\ UNCHANGED <<plannerVars, deflection, defenseCall, orbitVars, impact>>

\* a direct call of assessSeverity
AssessSeverityCall(energy, casualties, economicImpact) ==
    /\ physicsCall.op = "none"
    /\ physicsCall' = [op             |-> "assessSeverity",
                       energy         |-> energy,
                       casualties     |-> casualties,
                       economicImpact |-> economicImpact,
                       result         |-> assessSeverity(energy, casualties, economicImpact)]
    /\ UNCHANGED <<plannerVars, deflection, defenseCall, orbitVars, impact>>

\* a direct call of calculateTorinoScale
CalculateTorinoScaleCall(diameter, probability, energy) ==
    /\ physicsCall.op = "none"
    /\ physicsCall' = [op          |-> "calculateTorinoScale",
                       diameter    |-> diameter,
                       probability |-> probability,
                       energy      |-> energy,
                       result      |-> calculateTorinoScale(diameter, probability, energy)]
    /\ UNCHANGED <<plannerVars, deflection, defenseCall, orbitVars, impact>>

-----------------------------------------------------------------------------
(* Orbital Propagator: inputs and actions *)

MaxDelta == 1

MaxElapsed == 2

Ids == {"moon", "probe"}

\* the renderable object each caller passes for an id
ObjectOf == [moon |-> "moonMesh", probe |-> "probeMesh"]

Objects == {ObjectOf[id] : id \in Ids}

\* the orbitParams arguments; the last three break the element constraints
OrbitParams ==
    { [orbitalPeriod |-> 2],
      [semiMajorAxis |-> 8, eccentricity |-> 1, inclination |-> 1,
       argumentOfPeriapsis |-> 1, longitudeOfAscendingNode |-> 2, trueAnomaly |-> 1,
       orbitalPeriod |-> 2, clockwise |-> TRUE],
      [eccentricity |-> 1, trueAnomaly |-> 3, orbitalPeriod |-> 1, inclination |-> 3],
      [semiMajorAxis |-> 0, orbitalPeriod |-> 2],
      [eccentricity |-> 2, trueAnomaly |-> 1, orbitalPeriod |-> 2],
      [orbitalPeriod |-> 0] }

DeltaTimes == (0 - 1) .. MaxDelta

\* the segments arguments: whole numbers of points per quarter turn or more
SegmentCounts == {1, 2, 4}

OrbitInit ==
    /\ orbitalBodies = <<>>
    /\ sinks = [o \in Objects |-> <<0, 0, 0>>]
    /\ earthCenter = <<0, 0, 0>>
    /\ earthCore = NoCore
    /\ lastCall = [op |-> "constructor", id |-> "", known |-> FALSE, result |-> Void]
    /\ hung = FALSE

\* the state after the call `call` with outcome out
Called(call, out) ==
    /\ orbitalBodies' = out.bodies
    /\ sinks' = out.sinks
    /\ hung' = out.hung
    /\ lastCall' = call @@ [known |-> Has(orbitalBodies, call.id), result |-> out.result]
    /\ UNCHANGED <<earthCenter, earthCore>>
    /\ UNCHANGED <<plannerVars, deflection, defenseCall, impact, physicsCall>>

WithinElapsed(bodies, deltaTime) ==
    \A i \in 1..Len(bodies) : Abs(bodies[i].lastUpdate + deltaTime) <= MaxElapsed

RegisterOrbitalBody(id, orbitParams) ==
    /\ ~hung
    /\ Called([op |-> "registerOrbitalBody", id |-> id, orbitParams |-> orbitParams],
              registerOrbitalBody(orbitalBodies, sinks, earthCenter, id, ObjectOf[id],
                                  orbitParams))

Update(deltaTime) ==
    /\ ~hung
    /\ WithinElapsed(orbitalBodies, deltaTime)
    /\ Called([op |-> "update", id |-> "", deltaTime |-> deltaTime],
              update(orbitalBodies, sinks, earthCenter, deltaTime))

UpdateOrbitalBody(id, deltaTime) ==
    /\ ~hung
    /\ WithinElapsed(orbitalBodies, deltaTime)
    /\ Called([op |-> "updateOrbitalBody", id |-> id],
              updateOrbitalBody(orbitalBodies, sinks, earthCenter, id, deltaTime))

UpdateBodyPosition(id) ==
    /\ ~hung
    /\ Called([op |-> "updateBodyPosition", id |-> id],
              updateBodyPosition(orbitalBodies, sinks, earthCenter, id))

RemoveOrbitalBody(id) ==
    /\ ~hung
    /\ Called([op |-> "removeOrbitalBody", id |-> id],
              removeOrbitalBody(orbitalBodies, sinks, id))

GetOrbitalVelocity(id) ==
    /\ ~hung
    /\ Called([op |-> "getOrbitalVelocity", id |-> id],
              getOrbitalVelocity(orbitalBodies, sinks, id))

GetOrbitalData(id) ==
    /\ ~hung
    /\ Called([op |-> "getOrbitalData", id |-> id],
              getOrbitalData(orbitalBodies, sinks, id))

CreateOrbitPath(id, segments) ==
    /\ ~hung
    /\ Called([op |-> "createOrbitPath", id |-> id, segments |-> segments],
              createOrbitPath(orbitalBodies, sinks, earthCenter, id, segments))

Destroy ==
    /\ ~hung
    /\ Called([op |-> "destroy", id |-> ""], destroy(orbitalBodies, sinks))

\* positions given to setEarthCenter, and of the mesh given to setEarthCore
EarthPositions == {<<0, 0, 0>>, <<4, 0, 0>>}

\* the state after setEarthCore or setEarthCenter with outcome out
EarthMoved(call, out) ==
    /\ sinks' = out.sinks
    /\ earthCenter' = out.earthCenter
    /\ earthCore' = out.earthCore
    /\ lastCall' = call @@ [id |-> "", known |-> FALSE, result |-> Void]
    /\ UNCHANGED <<orbitalBodies, hung>>
    /\ UNCHANGED <<plannerVars, deflection, defenseCall, impact, physicsCall>>

SetEarthCore(core) ==
    /\ ~hung
    /\ EarthMoved([op |-> "setEarthCore", earthCore |-> core],
                  setEarthCore(orbitalBodies, sinks, earthCenter, core))

SetEarthCenter(newPosition) ==
    /\ ~hung
    /\ EarthMoved([op |-> "setEarthCenter", position |-> newPosition],
                  setEarthCenter(orbitalBodies, sinks, earthCore, newPosition))

-----------------------------------------------------------------------------
(* Specifications *)

Init ==
    PlannerInit /\ DeflectionInit /\ DefenseCallInit /\ OrbitInit /\ ImpactInit /\ PhysicsCallInit

\* generateDefensePlan, statement by statement
NextPlan ==
    \/ \E threats \in ThreatLists, b \in Budgets, horizon \in TimeHorizons :
          GenerateDefensePlan(threats, b, horizon)
    \/ ForEachThreat
    \/ ReturnPlan

SpecPlan == Init /\ [][NextPlan]_vars

\* calculateDeflection called directly
NextDeflection ==
    \E asteroidData \in Asteroids, defenseMethod \in MethodIds,
       timeToImpact \in ImpactTimes :
          CalculateDeflectionCall(asteroidData, defenseMethod, timeToImpact)

SpecDeflection == Init /\ [][NextDeflection]_vars

\* calculateOverallSuccess and allocateResources called directly
NextAccounting ==
    \/ \E timeline \in Timelines : CalculateOverallSuccessCall(timeline)
    \/ \E totalCost \in TotalCosts, availableBudget \in Budgets :
          AllocateResourcesCall(totalCost, availableBudget)

SpecAccounting == Init /\ [][NextAccounting]_vars

\* the formulas of both components called directly on asteroid records
NextFormulas ==
    \/ \E asteroid \in FormulaAsteroids : CalculateThreatScoreCall(asteroid)
    \/ \E asteroid \in FormulaAsteroids : CalculateAsteroidMassCall(asteroid)
    \/ \E asteroid \in FormulaAsteroids : CalculateKineticEnergyCall(asteroid)

SpecFormulas == Init /\ [][NextFormulas]_vars

\* calculateIntensity and getIntensityDescription called directly
NextIntensity ==
    \/ \E magnitude \in Magnitudes, distanceKm \in DistancesKm :
          CalculateIntensityCall(magnitude, distanceKm)
    \/ GetIntensityDescriptionCall

SpecIntensity == Init /\ [][NextIntensity]_vars

\* assessSeverity and calculateTorinoScale called directly
NextRating ==
    \/ \E energy \in EnergiesMT, casualties \in CasualtyCounts,
          economicImpact \in EconomicTotals :
             AssessSeverityCall(energy, casualties, economicImpact)
    \/ \E diameter \in {1, 10}, probability \in Probabilities, energy \in EnergiesMT :
          CalculateTorinoScaleCall(diameter, probability, energy)

SpecRating == Init /\ [][NextRating]_vars

\* calculateImpactEffects called directly
NextImpact ==
    \E asteroidData \in ImpactAsteroids, impactLocation \in ImpactLocations,
       terrainData \in TerrainData :
          CalculateImpactEffectsCall(asteroidData, impactLocation, terrainData)

SpecImpact == Init /\ [][NextImpact]_vars

\* the public methods of OrbitalMechanics, called in any order
NextOrbit ==
    \/ \E id \in Ids, orbitParams \in OrbitParams : RegisterOrbitalBody(id, orbitParams)
    \/ \E deltaTime \in DeltaTimes : Update(deltaTime)
    \/ \E id \in Ids, deltaTime \in DeltaTimes : UpdateOrbitalBody(id, deltaTime)
    \/ \E id \in Ids : UpdateBodyPosition(id)
    \/ \E id \in Ids : RemoveOrbitalBody(id)
    \/ \E id \in Ids : GetOrbitalVelocity(id)
    \/ \E id \in Ids : GetOrbitalData(id)
    \/ Destroy

SpecOrbit == Init /\ [][NextOrbit]_vars

\* orbit paths drawn for bodies as they are registered, moved and removed
NextPath ==
    \/ \E id \in Ids, orbitParams \in OrbitParams : RegisterOrbitalBody(id, orbitParams)
    \/ \E deltaTime \in DeltaTimes : Update(deltaTime)
    \/ \E id \in Ids : RemoveOrbitalBody(id)
    \/ \E id \in Ids, segments \in SegmentCounts : CreateOrbitPath(id, segments)

SpecPath == Init /\ [][NextPath]_vars

\* bodies registered, moved and removed while Earth's centre is moved
NextEarth ==
    \/ \E id \in Ids, orbitParams \in OrbitParams : RegisterOrbitalBody(id, orbitParams)
    \/ \E deltaTime \in DeltaTimes : Update(deltaTime)
    \/ \E id \in Ids : RemoveOrbitalBody(id)
    \/ \E core \in {CoreAt(position) : position \in EarthPositions} \cup {NoCore} :
          SetEarthCore(core)
    \/ \E newPosition \in EarthPositions : SetEarthCenter(newPosition)

SpecEarth == Init /\ [][NextEarth]_vars

-----------------------------------------------------------------------------
(* Properties of the Defense Planner *)

RECURSIVE SumCosts(_)
SumCosts(timeline) ==
    IF timeline = <<>> THEN 0 ELSE Head(timeline).cost + SumCosts(Tail(timeline))

WithinBudget ==
    /\ SumCosts(defensePlan.timeline) <= budget
    /\ defensePlan.totalCost <= budget

Position(method) == CHOOSE i \in 1..Len(MethodKeys) : MethodKeys[i] = method

\* the score the selection is meant to rank by, the percentage read as a number
RankedScore(deflectionResult, methodData) ==
    NMul(NMul(parseFloat(deflectionResult.successProbability),
              IF deflectionResult.willMiss THEN 2 ELSE 1),
         methodData.technologyReadiness)

ScoreOf(asteroid, horizon, method) ==
    RankedScore(calculateDeflection(asteroid, method, horizon), defenseMethods[method])

Affordable(availableBudget) ==
    {method \in CatalogIds : defenseMethods[method].cost <= availableBudget}

BestAffordable(bestMethod, asteroid, horizon, affordable) ==
    IF affordable = {} THEN bestMethod = Null
    ELSE /\ bestMethod \in affordable
         /\ \A other \in affordable :
               \/ ScoreOf(asteroid, horizon, bestMethod) > ScoreOf(asteroid, horizon, other)
               \/ /\ ScoreOf(asteroid, horizon, bestMethod) = ScoreOf(asteroid, horizon, other)
                  /\ Position(bestMethod) <= Position(other)

\* C2: for each threat, selectBestMethod returns the affordable catalog method
\* of the greatest score, the earliest in catalog order among equal scores,
\* and null only when no method is affordable.
C2_SelectsBestAffordable ==
    \A i \in 1..Len(selected) :
        BestAffordable(selected[i].bestMethod, selected[i].threat, timeHorizon,
                       Affordable(selected[i].availableBudget))

Bookkeeping(plan) ==
    /\ plan.totalCost + plan.remainingBudget = budget
    /\ plan.threatsMitigated = Len(plan.timeline)
    /\ plan.totalCost = SumCosts(plan.timeline)

\* what the callback does to the plan when selectBestMethod returned bestMethod
CommittedOrKept(plan, bestMethod, after) ==
    IF bestMethod # Null /\ defenseMethods[bestMethod].cost <= plan.remainingBudget
    THEN /\ Len(after.timeline) = Len(plan.timeline) + 1
         /\ SubSeq(after.timeline, 1, Len(plan.timeline)) = plan.timeline
         /\ after.timeline[Len(after.timeline)].method = bestMethod
         /\ after.timeline[Len(after.timeline)].cost = defenseMethods[bestMethod].cost
         /\ after.remainingBudget = plan.remainingBudget - defenseMethods[bestMethod].cost
         /\ after.totalCost = plan.totalCost + defenseMethods[bestMethod].cost
         /\ after.threatsMitigated = plan.threatsMitigated + 1
         /\ Bookkeeping(after)
    ELSE after = plan

\* C3: a threat for which a method is chosen with cost <= remainingBudget is
\* committed (one timeline entry appended, the cost moved from remainingBudget
\* to totalCost, threatsMitigated incremented) and any other threat changes
\* nothing; so totalCost + remainingBudget = budget, threatsMitigated = timeline
\* length and totalCost = the sum of the entries' costs, throughout.  The
\* callback is checked at every threat for every method the selection can
\* return, and for null.
C3_CommitBookkeeping ==
    /\ planPc # "idle" => Bookkeeping(defensePlan)
    /\ (planPc = "forEach" /\ index <= Len(asteroidThreats)) =>
           \A bestMethod \in CatalogIds \cup {Null} :
               CommittedOrKept(defensePlan, bestMethod,
                               PlanWith(defensePlan, asteroidThreats[index], index,
                                        timeHorizon, bestMethod).plan)

\* a threat about to be processed with a budget that affords the dearest method
C3_Committing ==
    /\ planPc = "forEach"
    /\ index <= Len(asteroidThreats)
    /\ defensePlan.remainingBudget >= defenseMethods["NUCLEAR_DEVICE"].cost
    /\ Len(PlanWith(defensePlan, asteroidThreats[index], index, timeHorizon,
                    "NUCLEAR_DEVICE").plan.timeline) = 1

\* C4: calculateDeflection raises an error for every method id that is not
\* one of the five catalog keys, and returns a result for each of the five.
C4_UnknownMethodThrows ==
    deflection.called =>
        (deflection.result.threw <=> deflection.defenseMethod \notin CatalogIds)

-----------------------------------------------------------------------------
(* Properties of Impact Physics *)

\* C5: for every asteroid record of positive finite diameter and velocity and
\* every location, with or without the optional inputs, calculateImpactEffects
\* returns a result and raises no exception.
C5_ImpactEffectsReturns ==
    ( /\ impact.called
      /\ IsFinite(NumField(impact.asteroidData, "diameter"))
      /\ IsFinite(NumField(impact.asteroidData, "velocity"))
      /\ NumField(impact.asteroidData, "diameter") > 0
      /\ NumField(impact.asteroidData, "velocity") > 0 )
    => ~impact.result.threw

-----------------------------------------------------------------------------
(* Properties of the Orbital Propagator *)

\* semiMajorAxis > 0, orbitalPeriod > 0 and 0 <= eccentricity < 1 (in halves)
ValidElements(orbit) ==
    /\ orbit.semiMajorAxis > 0
    /\ orbit.orbitalPeriod > 0
    /\ orbit.eccentricity >= 0
    /\ orbit.eccentricity < 2

\* C6: registerOrbitalBody fails for semiMajorAxis <= 0, orbitalPeriod <= 0 or
\* eccentricity outside [0,1), so no body with such elements is ever in the
\* registry.
C6_InvalidOrbitRejected ==
    \A i \in 1..Len(orbitalBodies) : ValidElements(orbitalBodies[i].orbit)

\* C7: every registered body of valid elements has 0 <= currentAnomaly < 2 pi,
\* whatever the registrations and updates so far; 2 pi itself is never stored.
C7_AnomalyBelowTwoPi ==
    \A i \in 1..Len(orbitalBodies) :
        ValidElements(orbitalBodies[i].orbit) =>
            /\ 0 <= orbitalBodies[i].currentAnomaly
            /\ orbitalBodies[i].currentAnomaly < TwoPi

Updated(bodyData) ==
    \/ lastCall.op = "update"
    \/ lastCall.op = "updateOrbitalBody" /\ lastCall.id = bodyData.id

DistanceSquared(p, q) ==
    (p[1] - q[1]) * (p[1] - q[1]) + (p[2] - q[2]) * (p[2] - q[2])
        + (p[3] - q[3]) * (p[3] - q[3])

\* distance = a (1 - e^2) / (1 + e cos(anomaly)), cleared of the division;
\* a in quarters, e in halves
AtOrbitRadius(distanceSquared, a, e, anomaly) ==
    /\ 2 + e * Cos(anomaly) > 0
    /\ distanceSquared * (2 * (2 + e * Cos(anomaly))) * (2 * (2 + e * Cos(anomaly)))
         = (a * (4 - e * e)) * (a * (4 - e * e))

UnknownIdOps == {"removeOrbitalBody", "updateOrbitalBody", "updateBodyPosition"}

\* C9: removeOrbitalBody, updateOrbitalBody and updateBodyPosition called with
\* an id that is not in the registry raise nothing and leave the registry and
\* every sink as they were.
C9_UnknownIdNoOp ==
    [][(lastCall'.op \in UnknownIdOps /\ ~Has(orbitalBodies, lastCall'.id)) =>
          /\ orbitalBodies' = orbitalBodies
          /\ sinks' = sinks
          /\ lastCall'.result = Void
          /\ ~hung']_vars

\* a body removed a second time while another body is registered
C9_RemovedTwice ==
    /\ lastCall.op = "removeOrbitalBody"
    /\ ~lastCall.known
    /\ Len(orbitalBodies) = 1
    /\ sinks[ObjectOf[lastCall.id]] # <<0, 0, 0>>

\* C10: getOrbitalVelocity and getOrbitalData of an id that is not registered
\* return null (or undefined), never a vector.
C10_UnknownIdQueriesNull ==
    (lastCall.op \in {"getOrbitalVelocity", "getOrbitalData"} /\ ~lastCall.known) =>
        lastCall.result.type \in {"null", "undefined"}

\* the anomaly after is the anomaly before plus angularVelocity * deltaTime,
\* modulo 2 pi
Advanced(before, after, deltaTime) ==
    /\ IsFinite(before.orbit.angularVelocity)
    /\ IsFinite(before.currentAnomaly)
    /\ IsFinite(after.currentAnomaly)
    /\ (after.currentAnomaly - before.currentAnomaly
          - before.orbit.angularVelocity * deltaTime) % TwoPi = 0

\* C11: one update(deltaTime) returns having advanced every registered body
\* once: currentAnomaly by angularVelocity * deltaTime modulo 2 pi and the
\* elapsed time by deltaTime, the key set and the elements unchanged.
C11_UpdateAdvancesAll ==
    [][lastCall'.op = "update" =>
          /\ ~hung'
          /\ Len(orbitalBodies') = Len(orbitalBodies)
          /\ \A i \in 1..Len(orbitalBodies) :
                /\ orbitalBodies'[i].id = orbitalBodies[i].id
                /\ orbitalBodies'[i].orbit = orbitalBodies[i].orbit
                /\ orbitalBodies'[i].lastUpdate
                     = orbitalBodies[i].lastUpdate + lastCall'.deltaTime
                /\ Advanced(orbitalBodies[i], orbitalBodies'[i], lastCall'.deltaTime)]_vars

GivenTrueAnomaly(orbitParams) ==
    IF "trueAnomaly" \in DOMAIN orbitParams THEN orbitParams.trueAnomaly ELSE 0

KeyChangingOps == {"registerOrbitalBody", "removeOrbitalBody", "destroy"}

\* C12: a registration puts the id in the registry with currentAnomaly the given
\* trueAnomaly and writes the position to the sink in the same call; a removal
\* or destroy takes the id out; no other call changes the key set, and no call
\* but a registration writes to the sink of an id that is not registered.
C12_RegisteredUntilRemoved ==
    [][/\ lastCall'.op = "registerOrbitalBody" =>
             /\ Keys(orbitalBodies') = Keys(orbitalBodies) \cup {lastCall'.id}
             /\ Get(orbitalBodies', lastCall'.id).currentAnomaly
                  = GivenTrueAnomaly(lastCall'.orbitParams)
             /\ Get(orbitalBodies', lastCall'.id).lastUpdate = 0
             /\ sinks'[ObjectOf[lastCall'.id]]
                  = OrbitPosition(Get(orbitalBodies', lastCall'.id).orbit,
                                  GivenTrueAnomaly(lastCall'.orbitParams), earthCenter)
       /\ lastCall'.op = "removeOrbitalBody" =>
             Keys(orbitalBodies') = Keys(orbitalBodies) \ {lastCall'.id}
       /\ lastCall'.op = "destroy" => Keys(orbitalBodies') = {}
       /\ lastCall'.op \notin KeyChangingOps => Keys(orbitalBodies') = Keys(orbitalBodies)
       /\ \A id \in Ids :
             (~Has(orbitalBodies, id) /\ ~Has(orbitalBodies', id)) =>
                 sinks'[ObjectOf[id]] = sinks[ObjectOf[id]]]_vars

\* an update of the registry while a body removed earlier is absent
C12_UpdatedAfterRemoval ==
    /\ lastCall.op = "update"
    /\ lastCall.deltaTime # 0
    /\ Len(orbitalBodies) = 1
    /\ \E id \in Ids : ~Has(orbitalBodies, id) /\ sinks[ObjectOf[id]] # <<0, 0, 0>>

\* C13: createOrbitPath of a registered body with segments N gives N + 1
\* points, point i the position of the orbit equation at angle 2 pi i / N with
\* the rotations of the position calculation, the first and the last the same;
\* the call changes neither registry nor sinks, and a second call gives the
\* same points.
C13_OrbitPathClosed ==
    [][(lastCall'.op = "createOrbitPath" /\ Has(orbitalBodies, lastCall'.id)) =>
          /\ orbitalBodies' = orbitalBodies
          /\ sinks' = sinks
          /\ ~hung'
          /\ Len(lastCall'.result.points) = lastCall'.segments + 1
          /\ \A i \in 0..lastCall'.segments :
                lastCall'.result.points[i + 1]
                  = OrbitPosition(Get(orbitalBodies, lastCall'.id).orbit,
                                  (i * TwoPi) \div lastCall'.segments, earthCenter)
          /\ lastCall'.result.points[1] = lastCall'.result.points[lastCall'.segments + 1]
          /\ ~HasNaN(lastCall'.result.points[1])
          /\ createOrbitPath(orbitalBodies', sinks', earthCenter, lastCall'.id,
                             lastCall'.segments).result = lastCall'.result]_vars

\* a path of four segments drawn for an eccentric body that has moved
C13_PathDrawn ==
    /\ lastCall.op = "createOrbitPath"
    /\ lastCall.known
    /\ lastCall.segments = 4
    /\ Get(orbitalBodies, lastCall.id).orbit.eccentricity = 1
    /\ Get(orbitalBodies, lastCall.id).currentAnomaly
         # Get(orbitalBodies, lastCall.id).orbit.trueAnomaly


-----------------------------------------------------------------------------
(* C14: generateDefensePlan on an empty threat list *)

\* a JavaScript number that is not NaN
DefinedNumber(x) == x \in Int /\ x # NaN

\* the numbers inside the five formatted buckets
BucketValues(allocation) ==
    {allocation.research.value, allocation.development.value,
     allocation.deployment.value, allocation.monitoring.value,
     allocation.contingency.value}

\* C14: a plan returned for an empty threat list has an empty timeline,
\* totalCost 0, remainingBudget equal to the budget, threatsMitigated 0 and
\* success probability 0, and every field it reports, the efficiency ratio
\* included, is a defined number rather than NaN
C14_EmptyListPlan ==
    (planPc = "done" /\ inputOrder = <<>>) =>
        /\ defensePlan.timeline = <<>>
        /\ defensePlan.totalCost = 0
        /\ defensePlan.remainingBudget = budget
        /\ defensePlan.threatsMitigated = 0
        /\ defensePlan.successProbability = [type |-> "number", value |-> 0]
        /\ DefinedNumber(defensePlan.efficiency)
        /\ \A v \in BucketValues(defensePlan.resourceAllocation) : DefinedNumber(v)

-----------------------------------------------------------------------------
(* C15: generateDefensePlan never throws *)

\* no catalog method costs at most availableBudget
CannotBeFunded(availableBudget) ==
    \A methodId \in CatalogIds : defenseMethods[methodId].cost > availableBudget

\* the timeline entries pushed by the callback for the threat at position pos
EntriesOf(timeline, pos) ==
    {k \in 1..Len(timeline) : timeline[k].year = pos - 1}

\* C15: for every list of asteroid records, every budget (zero, negative or
\* below the cheapest method) and every time horizon, generateDefensePlan
\* never throws, and a threat that cannot be funded has no timeline entry
C15_NeverThrows ==
    /\ planPc # "threw"
    /\ \A pos \in 1..Len(selected) :
          CannotBeFunded(selected[pos].availableBudget)
              => EntriesOf(defensePlan.timeline, pos) = {}

\* a plan returned for several threats, a positive horizon and a budget below
\* the cheapest method
C15_UnfundedPlanReturned ==
    /\ planPc = "done"
    /\ timeHorizon > 0
    /\ budget = 499
    /\ Len(selected) >= 2
    /\ \A pos \in 1..Len(selected) : CannotBeFunded(selected[pos].availableBudget)
    /\ defensePlan.timeline = <<>>

-----------------------------------------------------------------------------
(* C16: the order in which generateDefensePlan considers the threats *)

\* impactProbability * diameter^2 * velocity^2 of a record that has all three
ThreatScore(asteroid) ==
    asteroid.impactProbability * asteroid.diameter * asteroid.diameter
        * asteroid.velocity * asteroid.velocity

Complete(asteroid) == {"impactProbability", "diameter", "velocity"} \subseteq DOMAIN asteroid

\* the 1-based place of input[i] when input is put in non-increasing score
\* order with equal scores kept in input order
Rank(input, i) ==
    1 + Cardinality({j \in 1..Len(input) :
                        calculateThreatScore(input[j]) > calculateThreatScore(input[i])})
      + Cardinality({j \in 1..(i - 1) :
                        calculateThreatScore(input[j]) = calculateThreatScore(input[i])})

\* the cost committed for the threats before position pos
RECURSIVE CostBefore(_, _)
CostBefore(timeline, pos) ==
    IF timeline = <<>> THEN 0
    ELSE (IF Head(timeline).year < pos - 1 THEN Head(timeline).cost ELSE 0)
             + CostBefore(Tail(timeline), pos)

\* C16: the threats are considered in non-increasing order of threat score
\* (impactProbability x diameter^2 x velocity^2), equal scores in input order;
\* the timeline entries follow that order, and the budget a threat is offered
\* is the budget less what the threats before it, none of a lower score,
\* consumed
C16_ScoreOrder ==
    planPc \in {"forEach", "done"} =>
        /\ Len(asteroidThreats) = Len(inputOrder)
        /\ \A i \in 1..Len(inputOrder) :
              /\ asteroidThreats[Rank(inputOrder, i)] = inputOrder[i]
              /\ Complete(inputOrder[i]) =>
                    calculateThreatScore(inputOrder[i]) = ThreatScore(inputOrder[i])
        /\ \A i, j \in 1..Len(asteroidThreats) :
              i < j => calculateThreatScore(asteroidThreats[i])
                          >= calculateThreatScore(asteroidThreats[j])
        /\ \A pos \in 1..Len(selected) :
              /\ selected[pos].threat = asteroidThreats[pos]
              /\ selected[pos].availableBudget
                    = budget - CostBefore(defensePlan.timeline, pos)
        /\ \A a, b \in 1..Len(defensePlan.timeline) :
              a < b => defensePlan.timeline[a].year < defensePlan.timeline[b].year

\* a plan returned for a list given in another order than its scores, with
\* two threats of equal score
C16_Reordered ==
    /\ planPc = "done"
    /\ Len(inputOrder) = 3
    /\ inputOrder[1].name = "Twin" /\ inputOrder[2].name = "Bennu"
    /\ inputOrder[3].name = "Apophis"
    /\ asteroidThreats = <<inputOrder[3], inputOrder[1], inputOrder[2]>>
    /\ Len(selected) = 3

-----------------------------------------------------------------------------
(* C17: the overall success probability *)

\* the success rate of the mission's method times the time factor of horizon,
\* in tenths of a percent
IndividualSuccess(methodId, horizon) ==
    defenseMethods[methodId].successRate * calculateTimeFactor(horizon)

\* the product of the missions' percentages, each in tenths of a percent
RECURSIVE ProductOfTenths(_)
ProductOfTenths(timeline) ==
    IF timeline = <<>> THEN 1
    ELSE Head(timeline).successProbability.tenths * ProductOfTenths(Tail(timeline))

RECURSIVE Power(_, _)
Power(x, n) == IF n = 0 THEN 1 ELSE x * Power(x, n - 1)

\* C17: for every non-empty timeline calculateOverallSuccess reports the
\* product of the missions' individual success probabilities, each the
\* method's success rate times a time factor, as a percentage with one decimal
C17_ProductOfSuccess ==
    (defenseCall.op = "calculateOverallSuccess" /\ defenseCall.timeline # <<>>) =>
        LET timeline == defenseCall.timeline
            scale    == Power(1000, Len(timeline) - 1)
        IN  /\ \A k \in 1..Len(timeline) :
                  \E horizon \in TimeHorizons :
                      timeline[k].successProbability
                          = PercentString(IndividualSuccess(timeline[k].method, horizon))
            /\ defenseCall.result.type = "string"
            /\ defenseCall.result.suffix = "%"
            /\ 2 * Abs(defenseCall.result.tenths * scale - ProductOfTenths(timeline))
                  <= scale

\* the product of two different probabilities below 100%
C17_TwoMissions ==
    /\ defenseCall.op = "calculateOverallSuccess"
    /\ Len(defenseCall.timeline) = 2
    /\ defenseCall.timeline[1].successProbability.tenths = 765
    /\ defenseCall.timeline[2].successProbability.tenths = 475
    /\ defenseCall.result.tenths = 363

-----------------------------------------------------------------------------
(* C18: allocateResources *)

Min(a, b) == IF a <= b THEN a ELSE b

\* the five percentages of allocateResources
Shares ==
    [research |-> 15, development |-> 25, deployment |-> 45, monitoring |-> 10,
     contingency |-> 5]

\* C18: the buckets are 15, 25, 45, 10 and 5 percent of totalCost, scaled by
\* budget / totalCost when totalCost exceeds the budget, so that together they
\* account for min(totalCost, budget); with totalCost 0 every bucket is 0.
\* Each bucket is compared to the whole million it is formatted to.
C18_AllocationShares ==
    defenseCall.op = "allocateResources" =>
        \A key \in DOMAIN Shares :
            LET value == defenseCall.result[key].value
                limit == Min(defenseCall.totalCost, defenseCall.availableBudget)
            IN  /\ DefinedNumber(value)
                /\ defenseCall.totalCost = 0 => value = 0
                /\ defenseCall.totalCost > 0
                      => Abs(100 * value - Shares[key] * limit) <= 50

-----------------------------------------------------------------------------
(* C19: the time factor of the success probability *)

\* the step function of the claim, in tenths
StepFactor(t) ==
    CASE t >= 20           -> 10
      [] 10 <= t /\ t < 20 -> 9
      [] 5 <= t /\ t < 10  -> 7
      [] 2 <= t /\ t < 5   -> 5
      [] 1 <= t /\ t < 2   -> 3
      [] t < 1             -> 1

\* C19: the success probability calculateDeflection reports for a catalog
\* method is its success rate times the step factor of the time to impact
\* (1.0, 0.9, 0.7, 0.5, 0.3, 0.1 from 20, 10, 5, 2, 1 and 0 years on), and
\* the factor is non-decreasing in the time to impact and within (0, 1]
C19_StepTimeFactor ==
    (deflection.called /\ deflection.defenseMethod \in CatalogIds) =>
        /\ deflection.result.successProbability
              = PercentString(defenseMethods[deflection.defenseMethod].successRate
                                  * StepFactor(deflection.timeToImpact))
        /\ calculateTimeFactor(deflection.timeToImpact) \in 1..10
        /\ \A t \in ImpactTimes :
              t <= deflection.timeToImpact
                  => calculateTimeFactor(t) <= calculateTimeFactor(deflection.timeToImpact)

\* a kinetic impactor one year before the impact: 0.85 x 0.3 = 25.5%
C19_KineticAtOneYear ==
    /\ deflection.called
    /\ deflection.defenseMethod = "KINETIC_IMPACTOR"
    /\ deflection.timeToImpact = 1
    /\ deflection.result.successProbability.tenths = 255

-----------------------------------------------------------------------------
(* C20: the recommendation text *)

\* the text of the claim's time tier
TierText(t) ==
    CASE t > 15           -> "Gravity tractor recommended"
      [] 5 < t /\ t <= 15 -> "Kinetic impactor recommended"
      [] 2 < t /\ t <= 5  -> "Nuclear disruption necessary"
      [] t <= 2           -> "Emergency measures required"

\* achievableDeltaV >= requiredDeltaV in the reported result
Sufficient(result) == NGE(result.achievableDeltaV, result.requiredDeltaV)

\* C20, as stated: for every catalog method and asteroid the recommendation
\* is the text of the time tier alone, whether or not the deflection is
\* sufficient
C20_TierAlone ==
    (deflection.called /\ deflection.defenseMethod \in CatalogIds) =>
        deflection.result.recommendation = TierText(deflection.timeToImpact)

\* C20, amended: the recommendation is the text of the time tier when the
\* achievable delta-v is at least the required one, and the combined-approach
\* text in every tier when it is not
C20_TierWhenSufficient ==
    (deflection.called /\ deflection.defenseMethod \in CatalogIds) =>
        deflection.result.recommendation
            = IF Sufficient(deflection.result)
              THEN TierText(deflection.timeToImpact)
              ELSE "Combined approach required"

\* an insufficient deflection with more than fifteen years to the impact
C20_InsufficientLongLead ==
    /\ deflection.called
    /\ deflection.defenseMethod \in CatalogIds
    /\ deflection.timeToImpact > 15
    /\ ~Sufficient(deflection.result)
    /\ deflection.result.recommendation = "Combined approach required"

-----------------------------------------------------------------------------
(* C21: willMiss *)

\* 2 * 6371000 / (t * 31536000) m/s, in micrometres per second (the fraction
\* 12742000000 / (31536 t) reduced by 8)
RequiredDeltaV(t) ==
    IF t = 0 THEN PosInf ELSE (2 * 6371000 * 125) \div (t * 3942)

\* two Earth radii, in km
TwoEarthRadii == 12742

\* C21: in every calculateDeflection result willMiss is true exactly when the
\* achievable delta-v, the method formula times the method's effectiveness, is
\* at least the required delta-v 2 x 6371000 / (t x 31536000), that is exactly
\* when the miss distance is at least two Earth radii; for t = 0 the required
\* delta-v is infinite and willMiss is false
C21_WillMiss ==
    (deflection.called /\ ~deflection.result.threw) =>
        LET result == deflection.result
            t      == deflection.timeToImpact
        IN  /\ result.requiredDeltaV = RequiredDeltaV(t)
            /\ deflection.defenseMethod \in CatalogIds =>
                  result.achievableDeltaV
                      = MulDiv(DeflectionSwitch(deflection.defenseMethod,
                                                calculateAsteroidMass(deflection.asteroidData),
                                                t),
                               defenseMethods[deflection.defenseMethod].effectiveness, 10)
            /\ result.willMiss <=> NGE(result.achievableDeltaV, RequiredDeltaV(t))
            /\ result.willMiss <=> NGE(result.missDistance, TwoEarthRadii)
            /\ t = 0 => ~result.willMiss

\* a deflection that misses and one year: both sides of the equivalence
C21_Misses ==
    /\ deflection.called
    /\ deflection.defenseMethod \in CatalogIds
    /\ deflection.timeToImpact > 0
    /\ deflection.result.willMiss
    /\ deflection.result.missDistance >= TwoEarthRadii

-----------------------------------------------------------------------------
(* C22: the risk assessment *)

\* 1e9 m, in km
MillionKm == 1000000

\* C22: the risk level of every calculateDeflection result is LOW, MEDIUM or
\* HIGH; it is HIGH exactly when willMiss is false, and when willMiss is true
\* it is LOW if the miss distance exceeds 1e9 m and MEDIUM otherwise
C22_RiskLevels ==
    (deflection.called /\ ~deflection.result.threw) =>
        LET result == deflection.result
        IN  /\ result.riskAssessment \in {"LOW", "MEDIUM", "HIGH"}
            /\ result.riskAssessment = "HIGH" <=> ~result.willMiss
            /\ result.willMiss =>
                  (result.riskAssessment = "LOW" <=> NGT(result.missDistance, MillionKm))

\* a deflection that misses by more than a million km
C22_SafeMiss ==
    /\ deflection.called
    /\ ~deflection.result.threw
    /\ deflection.result.willMiss
    /\ NGT(deflection.result.missDistance, MillionKm)
    /\ deflection.result.riskAssessment = "LOW"

-----------------------------------------------------------------------------
(* C23: one density per composition in both components *)

\* the claim's table, kg/m^3; rock's density for any other name
ClaimedDensity(composition) ==
    CASE composition = "stony"        -> 3000
      [] composition = "iron"         -> 7800
      [] composition = "carbonaceous" -> 2000
      [] composition = "metal"        -> 7800
      [] composition = "rock"         -> 3000
      [] composition = "ice"          -> 1000
      [] OTHER                        -> 3000

\* C23: for each of the six compositions, and for an unrecognised one, the
\* density of the Impact Physics kinetic-energy calculation and the density of
\* the Defense Planner mass calculation are the claimed one, so that the
\* kinetic energy of a record is half the planner's mass of the same record
\* times its squared velocity
C23_SameDensity ==
    (/\ defenseCall.op = "calculateAsteroidMass"
     /\ physicsCall.op = "calculateKineticEnergy"
     /\ defenseCall.asteroid = physicsCall.asteroid
     /\ Field(defenseCall.asteroid, "composition") \in Compositions) =>
        LET asteroid == defenseCall.asteroid
            velocity == NumField(asteroid, "velocity")
        IN  /\ getDensity(asteroid.composition) = ClaimedDensity(asteroid.composition)
            /\ getMaterialDensity(asteroid.composition) = ClaimedDensity(asteroid.composition)
            /\ physicsCall.result
                  = MulDiv(defenseCall.result, NMul(velocity, velocity), 2)

-----------------------------------------------------------------------------
(* C24: assessSeverity *)

\* the eight tiers, lowest first
SeverityTiers ==
    <<"LOCALIZED", "SIGNIFICANT", "DISASTER", "MAJOR DISASTER", "REGIONAL CATASTROPHE",
      "CIVILIZATION THREAT", "GLOBAL CATASTROPHE", "EXTINCTION LEVEL">>

\* the place of a tier on the ladder, 1..8
TierIndex(tier) == CHOOSE k \in 1..Len(SeverityTiers) : SeverityTiers[k] = tier

\* the tier reached by energy alone (above 1, 10, ..., 1e6 MT), 1..8
EnergyTier(energy) ==
    1 + Cardinality({k \in 0..6 : energy > 10 * Power(10, k)})

\* the tier reached by casualties alone (above 1e3, ..., 1e9), 1..8
CasualtyTier(casualties) ==
    1 + Cardinality({k \in 0..6 : casualties > 1000 * Power(10, k)})

Max(a, b) == IF a >= b THEN a ELSE b

\* C24: assessSeverity returns one of the eight tiers, the higher of the tier
\* reached by energy alone and the tier reached by casualties alone; the tier
\* is non-decreasing in energy and in casualties and does not depend on the
\* economic total
C24_SeverityLadder ==
    physicsCall.op = "assessSeverity" =>
        /\ \E k \in 1..8 : SeverityTiers[k] = physicsCall.result
        /\ TierIndex(physicsCall.result)
              = Max(EnergyTier(physicsCall.energy), CasualtyTier(physicsCall.casualties))
        /\ \A energy \in EnergiesMT, casualties \in CasualtyCounts :
              (energy >= physicsCall.energy /\ casualties >= physicsCall.casualties)
                  => TierIndex(assessSeverity(energy, casualties,
                                              physicsCall.economicImpact))
                         >= TierIndex(physicsCall.result)
        /\ \A economicImpact \in EconomicTotals :
              assessSeverity(physicsCall.energy, physicsCall.casualties, economicImpact)
                  = physicsCall.result

\* exactly 10 MT with just over a million casualties: the casualties decide
C24_CasualtiesDecide ==
    /\ physicsCall.op = "assessSeverity"
    /\ physicsCall.energy = 100
    /\ physicsCall.casualties = 1000001
    /\ physicsCall.result = "REGIONAL CATASTROPHE"

-----------------------------------------------------------------------------
(* C25: calculateTorinoScale *)

\* the claim's table: probability in 1e-5, energy in tenths of a megaton
ClaimedTorino(probability, energy) ==
    IF probability < 10 THEN 0
    ELSE IF energy < 1 THEN 1
    ELSE LET band == CASE energy < 100   -> 2
                       [] energy < 1000  -> 4
                       [] energy < 10000 -> 6
                       [] OTHER          -> 8
         IN  IF probability > 1000 THEN band + 1 ELSE band

\* C25: calculateTorinoScale returns an integer in 0..9: 0 below probability
\* 0.0001, else 1 below 0.1 MT, else 2/3, 4/5, 6/7, 8/9 for the energy bands
\* from 0.1, 10, 100 and 1000 MT, the higher of a pair exactly when the
\* probability exceeds 0.01; for a fixed probability of at least 0.0001 the
\* rating is non-decreasing in energy, and for fixed energy in probability
C25_TorinoTable ==
    physicsCall.op = "calculateTorinoScale" =>
        /\ physicsCall.result \in 0..9
        /\ physicsCall.result = ClaimedTorino(physicsCall.probability, physicsCall.energy)
        /\ \A energy \in EnergiesMT :
              (physicsCall.probability >= 10 /\ energy >= physicsCall.energy)
                  => calculateTorinoScale(physicsCall.diameter, physicsCall.probability,
                                          energy) >= physicsCall.result
        /\ \A probability \in Probabilities :
              probability >= physicsCall.probability
                  => calculateTorinoScale(physicsCall.diameter, probability,
                                          physicsCall.energy) >= physicsCall.result

\* probability exactly 0.01 and energy exactly 10 MT: the lower value of the
\* band that begins at 10 MT
C25_AtBreakpoints ==
    /\ physicsCall.op = "calculateTorinoScale"
    /\ physicsCall.probability = 1000
    /\ physicsCall.energy = 100
    /\ physicsCall.result = 4

-----------------------------------------------------------------------------
(* C26: calculateIntensity and getIntensityDescription *)

\* the labels of the table
IntensityLabels == {IntensityScale[k] : k \in 1..Len(IntensityScale)}

\* C26: for every magnitude and every distance d >= 0 calculateIntensity
\* returns a value of at least 1 that does not grow with d, and
\* getIntensityDescription maps it to one of the ten labels of the table
C26_IntensityTable ==
    physicsCall.op = "getIntensityDescription" =>
        /\ physicsCall.intensity >= 100
        /\ \A distanceKm \in DistancesKm :
              distanceKm >= physicsCall.distanceKm
                  => calculateIntensity(physicsCall.magnitude, distanceKm)
                         <= physicsCall.intensity
        /\ physicsCall.result \in IntensityLabels

-----------------------------------------------------------------------------
(* C27: invalid numeric inputs *)

\* impactProbability * diameter^2 * velocity^2 of the values the record holds,
\* NaN for a value that is NaN or missing
PlainThreatScore(asteroid) ==
    NMul(NumField(asteroid, "impactProbability"),
         NMul(NMul(NumField(asteroid, "diameter"), NumField(asteroid, "diameter")),
              NMul(NumField(asteroid, "velocity"), NumField(asteroid, "velocity"))))

\* C27: calculateThreatScore, calculateAsteroidMass and calculateKineticEnergy
\* compute their result from the diameter, velocity and impactProbability
\* they are given, NaN, zero and negative values included, and never from a
\* substituted default: it is NaN where the formula gives NaN
C27_NoSubstitute ==
    /\ defenseCall.op = "calculateThreatScore" =>
          defenseCall.result = PlainThreatScore(defenseCall.asteroid)
    /\ (defenseCall.op = "calculateAsteroidMass"
            /\ NumField(defenseCall.asteroid, "diameter") = NaN) =>
          defenseCall.result = NaN
    /\ (physicsCall.op = "calculateKineticEnergy"
            /\ NaN \in {NumField(physicsCall.asteroid, "diameter"),
                         NumField(physicsCall.asteroid, "velocity")}) =>
          physicsCall.result = NaN

-----------------------------------------------------------------------------
(* C28: no sink is stale *)

\* C28: in every state reached by registerOrbitalBody, update,
\* removeOrbitalBody, setEarthCenter and setEarthCore calls, the sink of each
\* registered body holds the orbit-equation position of the body's
\* currentAnomaly, rotated and translated by the current Earth centre
C28_NoStaleSink ==
    ~hung =>
        \A i \in 1..Len(orbitalBodies) :
            sinks[orbitalBodies[i].object3D]
                = OrbitPosition(orbitalBodies[i].orbit, orbitalBodies[i].currentAnomaly,
                                earthCenter)

-----------------------------------------------------------------------------
(* C29: re-registration *)

\* the entries of the registry under another id than id, in order
OtherEntries(bodies, id) == SelectSeq(bodies, LAMBDA entry : entry.id # id)

\* C29: registerOrbitalBody with an id that is already registered replaces that
\* body's record (elements, sink, currentAnomaly the new trueAnomaly, elapsed
\* time 0), leaves the number of registered bodies as it was and changes no
\* other body's record or sink
C29_ReRegistrationReplaces ==
    [][(lastCall'.op = "registerOrbitalBody" /\ Has(orbitalBodies, lastCall'.id)) =>
          LET id     == lastCall'.id
              record == Get(orbitalBodies', id)
          IN  /\ Len(orbitalBodies') = Len(orbitalBodies)
              /\ Cardinality(Keys(orbitalBodies')) = Len(orbitalBodies')
              /\ \A key \in DOMAIN lastCall'.orbitParams :
                    record.orbit[key] = lastCall'.orbitParams[key]
              /\ \A key \in DOMAIN defaultParams \ DOMAIN lastCall'.orbitParams :
                    record.orbit[key] = defaultParams[key]
              /\ record.object3D = ObjectOf[id]
              /\ record.currentAnomaly = GivenTrueAnomaly(lastCall'.orbitParams)
              /\ record.lastUpdate = 0
              /\ OtherEntries(orbitalBodies', id) = OtherEntries(orbitalBodies, id)
              /\ \A other \in Ids \ {id} : sinks'[ObjectOf[other]] = sinks[ObjectOf[other]]]_vars

\* a body registered again, with a new starting anomaly, next to a body that
\* has been moving for some time
C29_RegisteredAgain ==
    /\ lastCall.op = "registerOrbitalBody"
    /\ lastCall.known
    /\ Len(orbitalBodies) = 2
    /\ Get(orbitalBodies, lastCall.id).currentAnomaly = 3
    /\ \E i \in 1..2 : orbitalBodies[i].id # lastCall.id /\ orbitalBodies[i].lastUpdate # 0

-----------------------------------------------------------------------------
(* C30: generateDefensePlan and its arguments *)

\* C30: after generateDefensePlan has returned, the caller's threat array
\* holds the same records in the same order as before the call
C30_ThreatArrayKept ==
    planPc = "done" => asteroidThreats = inputOrder

=============================================================================
